---- MODULE Spec2Model ----
(***************************************************************************)
(* A model of the word-freqs library of bee-bestie: the lazily loaded      *)
(* lexicon trie (WordFreqTrie: find, getWordsWithPrefix, solve, getRoot),  *)
(* the commonality statistic (word-stats) and the phonotactic scorer's     *)
(* generators (generateViableWords, countViableWords, getRandomViableWord).*)
(*                                                                         *)
(* Strings are sequences of one-character strings, so that a word can be   *)
(* walked character by character as the code walks it.                     *)
(***************************************************************************)
EXTENDS Integers, Sequences, FiniteSets, TLC

VARIABLES
    roots,      \* WordFreqTrie.roots: cache key (a character) -> loaded segment
    last,       \* the last trie call: its arguments and what it returned
    gen,        \* the generateViableWords / countViableWords call in progress
    rw,         \* the getRandomViableWord call in progress
    model,      \* the PhonotacticScorer's transition tables
    calls       \* the trie calls in flight at the same time, each at an await

vars == <<roots, last, gen, rw, model, calls>>

(***************************************************************************)
(* Bounds of the model.                                                    *)
(***************************************************************************)
\* longest string passed to find / getWordsWithPrefix
MaxWordLen == 3
\* largest minLength passed to solve
MaxMinLength == 3
\* largest maxLen passed to the word generators
MaxLen == 6
\* the maxRetries passed to getRandomViableWord
MaxRetries == 2
\* largest total frequency of a corpus in the commonality checks
MaxTotalFrequency == 6

(***************************************************************************)
(* Characters and strings.                                                 *)
(***************************************************************************)
LowerLetters == {"a", "b", "c"}
UpperLetters == {"A"}
\* a character no segment file exists for
OtherChars == {"1"}
\* characters whose segment file is damaged: "2" has a blob that does not
\* decompress or decode, "3" a blob that decodes to null
BadBlobChars == {"2", "3"}
Chars == LowerLetters \cup UpperLetters \cup OtherChars \cup BadBlobChars

\* the order in which keys were inserted into a node's children object
CharOrder == <<"a", "b", "c", "A", "1", "2", "3">>

Undefined == "undefined"
NullValue == "null"

\* !value, for a value that is a node, null or undefined
Falsy(value) == value \in {Undefined, NullValue}

\* String.prototype.toLowerCase on one character
toLowerCase(c) == IF c = "A" THEN "a" ELSE c

\* String.prototype.toLowerCase on a string
lowerStr(s) == [i \in 1..Len(s) |-> toLowerCase(s[i])]

Range(s) == {s[i] : i \in 1..Len(s)}

\* all strings over S of length at most n
StringsUpTo(S, n) == UNION {[1..k -> S] : k \in 0..n}

IsPrefixOf(p, w) == Len(p) <= Len(w) /\ SubSeq(w, 1, Len(p)) = p

\* the elements of a set of characters, as an array in insertion order
ArrayOf(S) == SelectSeq(CharOrder, LAMBDA c : c \in S)

\* [...new Set(arr)]: first occurrences, in order
RECURSIVE Dedupe(_)
Dedupe(arr) ==
    IF arr = << >> THEN << >>
    ELSE LET front == Dedupe(SubSeq(arr, 1, Len(arr) - 1))
             x == arr[Len(arr)]
         IN IF x \in Range(front) THEN front ELSE Append(front, x)

(***************************************************************************)
(* The dictionary the segment files were built from, with each word's      *)
(* frequency, and the corpus metadata computed from it at build time.      *)
(***************************************************************************)
DictFreq ==
    ( <<"a", "b">>      :> 3 ) @@
    ( <<"a", "b", "a">> :> 1 ) @@
    ( <<"a", "c">>      :> 2 ) @@
    ( <<"b">>           :> 5 ) @@
    ( <<"b", "a">>      :> 4 ) @@
    ( <<"b", "a", "b">> :> 1 ) @@
    ( <<"c", "a", "b">> :> 2 )

Dict == DOMAIN DictFreq

RECURSIVE SumFreq(_)
SumFreq(W) ==
    IF W = {} THEN 0
    ELSE LET w == CHOOSE x \in W : TRUE IN DictFreq[w] + SumFreq(W \ {w})

metadata ==
    [ wordCount      |-> Cardinality(Dict),
      totalFrequency |-> SumFreq(Dict),
      minFrequency   |-> CHOOSE f \in {DictFreq[w] : w \in Dict} :
                            \A w \in Dict : f <= DictFreq[w],
      maxFrequency   |-> CHOOSE f \in {DictFreq[w] : w \in Dict} :
                            \A w \in Dict : f >= DictFreq[w] ]

\* the letters a segment file exists for
SegmentLetters == {w[1] : w \in Dict}

(***************************************************************************)
(* Trie nodes.  A node of a segment is named by its path from the trie     *)
(* root; the root that getRoot synthesizes carries its own children map.   *)
(***************************************************************************)
\* TrieNode.children of a segment node: the keys, in insertion order
childKeys(path) ==
    SelectSeq(CharOrder,
              LAMBDA c : \E w \in Dict : IsPrefixOf(Append(path, c), w))

\* TrieNode.isEndOfWord
isEndOfWord(node) == (~node.synth) /\ node.path \in Dict

\* WordNode.frequency
frequency(node) == DictFreq[node.path]

SegmentNode(path) == [defined |-> TRUE, synth |-> FALSE, path |-> path]

\* the value undefined, where a node is expected
UndefinedNode == [defined |-> FALSE, synth |-> FALSE, path |-> << >>]

\* node.children[char], or undefined
childOf(node, char) ==
    IF node.synth
    THEN IF Falsy(node.children[char]) THEN UndefinedNode
         ELSE SegmentNode(<<node.children[char]>>)
    ELSE IF \E w \in Dict : IsPrefixOf(Append(node.path, char), w)
         THEN SegmentNode(Append(node.path, char))
         ELSE UndefinedNode

\* Object.entries(node.children): the keys, in insertion order
entryKeys(node) == IF node.synth THEN node.keys ELSE childKeys(node.path)

(***************************************************************************)
(* word-stats: the commonality statistic.  Numbers are fixed-point with    *)
(* three decimals (Milli = 1.0); a probability is kept as the exact        *)
(* fraction frequency / totalFrequency.                                    *)
(***************************************************************************)
Milli == 1000

\* a number that may be NaN
Num(v) == [nan |-> FALSE, milli |-> v]
NaN == [nan |-> TRUE, milli |-> 0]

\* Math.log on the integers 1..24, in thousandths
LnMilli ==
    <<    0,  693, 1099, 1386, 1609, 1792, 1946, 2079,
       2197, 2303, 2398, 2485, 2565, 2639, 2708, 2773,
       2833, 2890, 2944, 2996, 3045, 3091, 3135, 3178 >>

\* logit(clamp(eps)) = ln(1e-9 / (1 - 1e-9)), in thousandths
LogitEps == -20723

\* clamp(value, min, max) = Math.min(Math.max(value, min), max); NaN stays NaN
clamp(value, min, max) ==
    IF value.nan THEN NaN
    ELSE IF value.milli < min THEN Num(min)
    ELSE IF value.milli > max THEN Num(max)
    ELSE value

\* logit(x) for x = num / den: x is clamped to [eps, 1 - eps] first
logit(num, den) ==
    IF num <= 0 THEN LogitEps
    ELSE IF num >= den THEN -LogitEps
    ELSE LnMilli[num] - LnMilli[den - num]

\* computeCommonality over the three logits; 0/0 is NaN, x/0 is +-Infinity
computeCommonality(pLogit, minLogit, maxLogit) ==
    LET commonality ==
            IF maxLogit = minLogit
            THEN IF pLogit = minLogit THEN NaN
                 ELSE IF pLogit > minLogit THEN Num(2 * Milli) ELSE Num(-Milli)
            ELSE Num(((pLogit - minLogit) * Milli) \div (maxLogit - minLogit))
    IN clamp(commonality, 0, Milli)

computeCommonalityFromMetadata(md, freq) ==
    computeCommonality(logit(freq, md.totalFrequency),
                       logit(md.minFrequency, md.totalFrequency),
                       logit(md.maxFrequency, md.totalFrequency))

\* getWordStats(metadata, frequency): found defaults to true
getWordStats(md, freq) ==
    [ found       |-> TRUE,
      frequency   |-> freq,
      commonality |-> computeCommonalityFromMetadata(md, freq),
      probability |-> [num |-> freq, den |-> md.totalFrequency] ]

\* { word, ...getWordStats(metadata, frequency) }
WordStats(word, freq) ==
    [word |-> word] @@ getWordStats(metadata, freq)

\* NotFound with the fallback frequency dropped
NotFoundZero(word, fallbackFreq) ==
    [WordStats(word, 0) EXCEPT !.found = FALSE]

\* { word, ...getWordStats(metadata, fallbackFreq), found: false }
NotFound(word, fallbackFreq) ==
    [WordStats(word, fallbackFreq) EXCEPT !.found = FALSE]

(***************************************************************************)
(* The segment loader and WordFreqTrie.getRoot.                            *)
(***************************************************************************)
\* the loader: the blob of the file word_stats-<char.toLowerCase()>.mpck.gz,
\* or a rejection when there is no such file
loader(char) ==
    IF toLowerCase(char) \in SegmentLetters
    THEN [ok |-> TRUE, blob |-> <<"gz", toLowerCase(char)>>]
    ELSE IF char = "2" THEN [ok |-> TRUE, blob |-> <<"damaged", char>>]
    ELSE IF char = "3" THEN [ok |-> TRUE, blob |-> <<"gz", NullValue>>]
    ELSE [ok |-> FALSE]

\* whether gunzip and unpack get through the blob without an error
decodes(blob) == blob[1] = "gz"

\* gunzip + unpack of a blob: the value it was packed from
unpack(blob) == blob[2]

NoRoots == [c \in Chars |-> Undefined]

\* getRoot(chars) from its i-th character on; the cache is updated as it
\* goes, and `loads` lists the characters the loader was invoked for
RECURSIVE getRootFrom(_, _, _, _, _)
getRootFrom(rts, children, keys, chars, i) ==
    IF i > Len(chars)
    THEN [threw |-> FALSE, roots |-> rts, loads |-> << >>,
          node |-> [defined |-> TRUE, synth |-> TRUE,
                    children |-> children, keys |-> keys]]
    ELSE LET char == chars[i]
             child == rts[toLowerCase(char)]
             keys2 == IF char \in Range(keys) THEN keys ELSE Append(keys, char)
         IN IF Falsy(child)
            THEN LET buffer == loader(char)
                 IN IF ~buffer.ok \/ ~decodes(buffer.blob)
                    THEN [threw |-> TRUE, roots |-> rts, loads |-> <<char>>,
                          node |-> UndefinedNode]
                    ELSE LET rts2 == [rts EXCEPT ![char] = unpack(buffer.blob)]
                             rest == getRootFrom(rts2,
                                         [children EXCEPT ![char] = rts2[char]],
                                         keys2, chars, i + 1)
                         IN [rest EXCEPT !.loads = <<char>> \o @]
            ELSE getRootFrom(rts, [children EXCEPT ![char] = rts[char]],
                             keys2, chars, i + 1)

getRoot(rts, chars) == getRootFrom(rts, NoRoots, << >>, chars, 1)

(***************************************************************************)
(* WordFreqTrie.find, getWordsWithPrefix and solve.  Each returns the      *)
(* cache as getRoot left it, whether the call threw, and the results.      *)
(***************************************************************************)
\* the walk `for (const char of s) current = current.children[char]`;
\* undefined as soon as a child is missing
RECURSIVE walk(_, _, _)
walk(current, s, i) ==
    IF i > Len(s) THEN current
    ELSE LET child == childOf(current, s[i])
         IN IF ~child.defined THEN UndefinedNode ELSE walk(child, s, i + 1)

\* find reporting the fallback frequency for a word it found
findFallbackOnHit(rts, word, fallbackFreq) ==
    IF word = << >>
    THEN [threw |-> FALSE, roots |-> rts,
          results |-> <<NotFound(word, fallbackFreq)>>]
    ELSE LET root == getRoot(rts, <<word[1]>>)
         IN IF root.threw
            THEN [threw |-> TRUE, roots |-> root.roots, results |-> << >>]
            ELSE LET current == walk(root.node, lowerStr(word), 1)
                 IN [threw |-> FALSE, roots |-> root.roots,
                     results |->
                        IF current.defined /\ isEndOfWord(current)
                        THEN <<WordStats(word, fallbackFreq)>>
                        ELSE <<NotFound(word, fallbackFreq)>>]

find(rts, word, fallbackFreq) ==
    IF word = << >>
    THEN [threw |-> FALSE, roots |-> rts,
          results |-> <<NotFound(word, fallbackFreq)>>]
    ELSE LET root == getRoot(rts, <<word[1]>>)
         IN IF root.threw
            THEN [threw |-> TRUE, roots |-> root.roots, results |-> << >>]
            ELSE LET current == walk(root.node, lowerStr(word), 1)
                 IN [threw |-> FALSE, roots |-> root.roots,
                     results |->
                        IF current.defined /\ isEndOfWord(current)
                        THEN <<WordStats(word, frequency(current))>>
                        ELSE <<NotFound(word, fallbackFreq)>>]

\* collectWords(node, prefix, results): the words below node, depth first
RECURSIVE collectWords(_, _)
RECURSIVE collectChildren(_, _, _, _)
collectWords(node, prefix) ==
    (IF isEndOfWord(node)
     THEN <<[word |-> prefix, frequency |-> frequency(node)]>>
     ELSE << >>)
    \o collectChildren(node, prefix, entryKeys(node), 1)
collectChildren(node, prefix, keys, i) ==
    IF i > Len(keys) THEN << >>
    ELSE collectWords(childOf(node, keys[i]), Append(prefix, keys[i]))
         \o collectChildren(node, prefix, keys, i + 1)

getWordsWithPrefix(rts, prefix) ==
    IF prefix = << >>
    THEN [threw |-> FALSE, roots |-> rts, results |-> << >>]
    ELSE LET root == getRoot(rts, <<prefix[1]>>)
         IN IF root.threw
            THEN [threw |-> TRUE, roots |-> root.roots, results |-> << >>]
            ELSE LET current == walk(root.node, lowerStr(prefix), 1)
                 IN [threw |-> FALSE, roots |-> root.roots,
                     results |-> IF ~current.defined THEN << >>
                                 ELSE collectWords(current, prefix)]

\* the dfs helper of solve: the accepted { word, node } pairs, in visit order
RECURSIVE dfs(_, _, _, _, _, _)
RECURSIVE dfsChildren(_, _, _, _, _, _, _, _)

\* dfs that stops descending once it has accepted a word
dfsStopAtWord(node, prefix, usedRequired, validSet, required, minLength) ==
    IF Len(prefix) >= minLength /\ isEndOfWord(node) /\ usedRequired
    THEN <<[word |-> prefix, node |-> node]>>
    ELSE dfsChildren(node, prefix, usedRequired, validSet, required, minLength,
                     entryKeys(node), 1)

\* dfs that accepts a word only when its length is minLength exactly
dfsExactLength(node, prefix, usedRequired, validSet, required, minLength) ==
    (IF Len(prefix) = minLength /\ isEndOfWord(node) /\ usedRequired
     THEN <<[word |-> prefix, node |-> node]>>
     ELSE << >>)
    \o dfsChildren(node, prefix, usedRequired, validSet, required, minLength,
                   entryKeys(node), 1)

\* the child loop of dfs without the validSet test
dfsChildrenAnyLetter(node, prefix, usedRequired, validSet, required, minLength, keys, i) ==
    IF i > Len(keys) THEN << >>
    ELSE dfs(childOf(node, keys[i]), Append(prefix, keys[i]),
             usedRequired \/ keys[i] = required, validSet, required, minLength)
         \o dfsChildren(node, prefix, usedRequired, validSet, required,
                        minLength, keys, i + 1)

dfs(node, prefix, usedRequired, validSet, required, minLength) ==
    (IF Len(prefix) >= minLength /\ isEndOfWord(node) /\ usedRequired
     THEN <<[word |-> prefix, node |-> node]>>
     ELSE << >>)
    \o dfsChildren(node, prefix, usedRequired, validSet, required, minLength,
                   entryKeys(node), 1)

dfsChildren(node, prefix, usedRequired, validSet, required, minLength, keys, i) ==
    IF i > Len(keys) THEN << >>
    ELSE LET char == keys[i]
         IN (IF char \in validSet
             THEN dfs(childOf(node, char), Append(prefix, char),
                      usedRequired \/ char = required,
                      validSet, required, minLength)
             ELSE << >>)
            \o dfsChildren(node, prefix, usedRequired, validSet, required,
                           minLength, keys, i + 1)

solve(rts, validLetters, requiredLetter, minLength) ==
    LET validArr == Dedupe(lowerStr(validLetters))
        validSet == Range(validArr)
        required == toLowerCase(requiredLetter)
        root == getRoot(rts, validArr)
    IN IF root.threw
       THEN [threw |-> TRUE, roots |-> root.roots, results |-> << >>]
       ELSE LET found == dfs(root.node, << >>, FALSE, validSet, required, minLength)
            IN [threw |-> FALSE, roots |-> root.roots,
                results |-> [i \in 1..Len(found) |->
                                WordStats(found[i].word, frequency(found[i].node))]]

(***************************************************************************)
(* PhonotacticScorer: training of the syllable bigrams.  A syllable is a   *)
(* string; a training word comes with the syllables the syllabifier        *)
(* splits it into.                                                         *)
(***************************************************************************)
\* the boundary markers '^^' and '$$'
StartMarker == <<"^", "^">>
EndMarker == <<"$", "$">>

\* the training words, as doc.syllables() returns them:
\* ab-a, a-ba, ba-ba, cab, a-cab
TrainingWords ==
    << << <<"a", "b">>, <<"a">> >>,
       << <<"a">>, <<"b", "a">> >>,
       << <<"b", "a">>, <<"b", "a">> >>,
       << <<"c", "a", "b">> >>,
       << <<"a">>, <<"c", "a", "b">> >>,
       << <<"b">>, <<"a">> >>,
       << <<"a">>, <<"c">> >> >>

\* an empty Transitions table: its keys in insertion order, and for each key
\* the keys of its next-map in insertion order
NoTransitions == [keys |-> << >>, next |-> << >>]

\* sylCounts[current] = {}
newEntry(table, current) ==
    [keys |-> Append(table.keys, current), next |-> Append(table.next, << >>)]

\* sylCounts[current][next] = (sylCounts[current][next] || 0) + 1, for a
\* current that has its entry
addTransition(table, current, next) ==
    LET k == CHOOSE i \in 1..Len(table.keys) : table.keys[i] = current
    IN IF next \in Range(table.next[k]) THEN table
       ELSE [table EXCEPT !.next[k] = Append(@, next)]

\* the bigrams of one tokenized word, from its i-th token on
RECURSIVE trainWord(_, _, _)
trainWord(table, sylTokenized, i) ==
    IF i > Len(sylTokenized) - 1 THEN table
    ELSE LET current == sylTokenized[i]
             next == sylTokenized[i + 1]
         IN IF current \in Range(table.keys)
            THEN trainWord(addTransition(table, current, next),
                           sylTokenized, i + 1)
            ELSE trainWord(addTransition(newEntry(table, current), current, next),
                           sylTokenized, i + 1)

RECURSIVE trainFrom(_, _, _)
trainFrom(table, words, w) ==
    IF w > Len(words) THEN table
    ELSE trainFrom(trainWord(table, <<StartMarker>> \o words[w] \o <<EndMarker>>, 1),
                   words, w + 1)

\* how many times each word of TrainingWords occurs in the list given to
\* train: the list is 'baba' many times over, and every other word once
WordTimes == <<1, 1, 700, 1, 1, 1, 1>>

\* Math.log at the larger counts this list gives rise to, in thousandths
LnMilliOf(n) ==
    IF n <= Len(LnMilli) THEN LnMilli[n]
    ELSE CASE n = 1401 -> 7245
           [] n = 1402 -> 7246
           [] n = 1406 -> 7249
           [] n = 1411 -> 7252

\* `^^${syllable}$$`
tokenize(syllable) == <<"^", "^">> \o syllable \o <<"$", "$">>

\* charCounts = {}
NoCounts == [keys |-> << >>, next |-> << >>, count |-> << >>]

\* charCounts[context] = {}
newContext(counts, context) ==
    [keys |-> Append(counts.keys, context),
     next |-> Append(counts.next, << >>),
     count |-> Append(counts.count, << >>)]

\* charCounts[context][char]++ for each of the `times` occurrences of the
\* word, for a context that has its entry
addCount(counts, context, char, times) ==
    LET k == CHOOSE i \in 1..Len(counts.keys) : counts.keys[i] = context
    IN IF char \in Range(counts.next[k])
       THEN LET j == CHOOSE i \in 1..Len(counts.next[k]) : counts.next[k][i] = char
            IN [counts EXCEPT !.count[k][j] = @ + times]
       ELSE [counts EXCEPT !.next[k] = Append(@, char),
                           !.count[k] = Append(@, times)]

\* the character transitions of one syllable, from its i-th window on
RECURSIVE trainSyllable(_, _, _, _)
trainSyllable(counts, tokenized, i, times) ==
    IF i > Len(tokenized) - 2 THEN counts
    ELSE LET context == SubSeq(tokenized, i, i + 1)
             char == tokenized[i + 2]
         IN IF context \in Range(counts.keys)
            THEN trainSyllable(addCount(counts, context, char, times),
                               tokenized, i + 1, times)
            ELSE trainSyllable(addCount(newContext(counts, context),
                                        context, char, times),
                               tokenized, i + 1, times)

\* the loop over the syllables of one word
RECURSIVE trainSyllables(_, _, _, _)
trainSyllables(counts, syllables, s, times) ==
    IF s > Len(syllables) THEN counts
    ELSE trainSyllables(trainSyllable(counts, tokenize(syllables[s]), 1, times),
                        syllables, s + 1, times)

\* the loop over the words, for the character counts
RECURSIVE trainCharsFrom(_, _, _)
trainCharsFrom(counts, words, w) ==
    IF w > Len(words) THEN counts
    ELSE trainCharsFrom(trainSyllables(counts, words[w], 1, WordTimes[w]),
                        words, w + 1)

RECURSIVE SumSeq(_)
SumSeq(numbers) ==
    IF numbers = << >> THEN 0 ELSE Head(numbers) + SumSeq(Tail(numbers))

\* transitions rarer than this are left out of the tables
minTransitionLogThreshold == -11 * Milli

\* Math.log(counts[context][next] / totals[context]), in thousandths
logProb(counts, k, j) ==
    LnMilliOf(counts.count[k][j]) - LnMilliOf(SumSeq(counts.count[k]))

\* countsToLogProbs: every context keeps its entry; a next symbol is kept
\* unless its log-probability is under minTransitionLogThreshold
countsToLogProbs(counts) ==
    LET kept(k) ==
            SelectSeq([j \in 1..Len(counts.next[k]) |-> j],
                      LAMBDA j : ~(logProb(counts, k, j) < minTransitionLogThreshold))
    IN [keys |-> counts.keys,
        next |-> [k \in 1..Len(counts.keys) |->
                    [x \in 1..Len(kept(k)) |-> counts.next[k][kept(k)[x]]]],
        value |-> [k \in 1..Len(counts.keys) |->
                    [x \in 1..Len(kept(k)) |-> logProb(counts, k, kept(k)[x])]]]

\* train(words): the scorer's tables after training
train(words) ==
    [syllableBigrams |-> trainFrom(NoTransitions, words, 1),
     charTransitions |-> countsToLogProbs(trainCharsFrom(NoCounts, words, 1))]

\* Object.keys(syllableBigrams[current]); << >> when current is not a key
nextKeys(t, current) ==
    IF current \in Range(t.keys)
    THEN t.next[CHOOSE i \in 1..Len(t.keys) : t.keys[i] = current]
    ELSE << >>

\* arr.join('')
RECURSIVE join(_)
join(arr) == IF arr = << >> THEN << >> ELSE Head(arr) \o join(Tail(arr))

(***************************************************************************)
(* PhonotacticScorer.scoreSyllable, score and isViable.  A score is kept   *)
(* as the exact fraction totalScore / transitionsCount, in thousandths.    *)
(* The syllables of a word are what the syllabifier of the speech library  *)
(* returns for it; they are an input here.                                 *)
(***************************************************************************)
\* a single syllable is pronounceable when its score is above this
threshold == -4 * Milli

\* a syllable with a transition rarer than this is rejected
minTransitionThreshold == -6 * Milli

\* return -10.0
Penalty == [sum |-> -10 * Milli, n |-> 1]

\* this.charTransitions[context]?.[char]
charProb(ct, context, char) ==
    IF context \notin Range(ct.keys) THEN [defined |-> FALSE, value |-> 0]
    ELSE LET k == CHOOSE i \in 1..Len(ct.keys) : ct.keys[i] = context
         IN IF char \notin Range(ct.next[k]) THEN [defined |-> FALSE, value |-> 0]
            ELSE LET j == CHOOSE i \in 1..Len(ct.next[k]) : ct.next[k][i] = char
                 IN [defined |-> TRUE, value |-> ct.value[k][j]]

\* the loop of scoreSyllable from the i-th window on
RECURSIVE scoreWindows(_, _, _, _, _)
scoreWindows(ct, tokenized, i, totalScore, transitionsCount) ==
    IF i > Len(tokenized) - 2
    THEN [sum |-> totalScore, n |-> transitionsCount]
    ELSE LET prob == charProb(ct, SubSeq(tokenized, i, i + 1), tokenized[i + 2])
         IN IF prob.defined
            THEN IF prob.value < minTransitionThreshold THEN Penalty
                 ELSE scoreWindows(ct, tokenized, i + 1, totalScore + prob.value,
                                   transitionsCount + 1)
            ELSE Penalty

scoreSyllable(m, syllable) ==
    scoreWindows(m.charTransitions, tokenize(lowerStr(syllable)), 1, 0, 0)

\* if (syllables.length === 0) return -100
NoSyllables == [sum |-> -100 * Milli, n |-> 1]

\* totalScore += this.scoreSyllable(syllable), on fractions
addScore(totalScore, score) ==
    [sum |-> totalScore.sum * score.n + score.sum * totalScore.n,
     n |-> totalScore.n * score.n]

\* the loop of score over the syllables, from the i-th on
RECURSIVE scoreTotal(_, _, _, _)
scoreTotal(m, syllables, i, totalScore) ==
    IF i > Len(syllables) THEN totalScore
    ELSE IF totalScore.n > 0
    THEN scoreTotal(m, syllables, i + 1,
                    addScore(totalScore, scoreSyllable(m, syllables[i])))
    ELSE totalScore

\* score that returns the total of the syllable scores
scoreUndivided(m, syllables) ==
    IF Len(syllables) = 0 THEN NoSyllables
    ELSE scoreTotal(m, syllables, 1, [sum |-> 0, n |-> 1])

\* score, given the syllables of the word: totalScore / syllables.length
score(m, syllables) ==
    IF Len(syllables) = 0 THEN NoSyllables
    ELSE LET totalScore == scoreTotal(m, syllables, 1, [sum |-> 0, n |-> 1])
         IN [sum |-> totalScore.sum, n |-> totalScore.n * Len(syllables)]

\* score <= limit, for a score kept as a fraction
AtMost(value, limit) == value.sum <= limit * value.n

\* the ways of cutting a word into syllables (none for the empty word): the
\* syllabifier returns one of them
RECURSIVE Segmentations(_)
Segmentations(word) ==
    IF word = << >> THEN { << >> }
    ELSE { <<SubSeq(word, 1, x[1])>> \o x[2] :
             x \in UNION { {k} \X Segmentations(SubSeq(word, k + 1, Len(word))) :
                             k \in 1..Len(word) } }

\* isViable that lets a syllable pass whose score is the threshold itself
isViableAtThreshold(m, syllables) ==
    IF Len(syllables) = 0 THEN FALSE
    ELSE \A i \in 1..Len(syllables) :
             LET value == scoreSyllable(m, syllables[i])
             IN value.sum >= threshold * value.n

\* isViable, given the syllables of the word
isViable(m, syllables) ==
    IF Len(syllables) = 0 THEN FALSE
    ELSE ~\E i \in 1..Len(syllables) :
             /\ AtMost(scoreSyllable(m, syllables[i]), threshold)
             /\ \A h \in 1..(i - 1) :
                   ~AtMost(scoreSyllable(m, syllables[h]), threshold)

(***************************************************************************)
(* PhonotacticScorer.generateViableWords and countViableWords.  Options    *)
(* are { pool, center, minLen, maxLen }; pool is a string, center one      *)
(* character.                                                              *)
(***************************************************************************)
\* poolSet = new Set(pool.split('')); poolSet.add(center)
poolSetOf(options) == Range(options.pool) \cup {options.center}

\* isValidSyllable of generateViableWords: '$$' is valid, '^^' is not special
genIsValidSyllable(syl, poolSet) ==
    syl = EndMarker \/ \A i \in 1..Len(syl) : syl[i] \in poolSet

\* the validTransitions map of generateViableWords, from the i-th entry of
\* syllableBigrams on
RECURSIVE genValidTransitionsFrom(_, _, _, _)
genValidTransitionsFrom(vt, bigrams, poolSet, i) ==
    IF i > Len(bigrams.keys) THEN vt
    ELSE LET current == bigrams.keys[i]
             validNext == SelectSeq(bigrams.next[i],
                                    LAMBDA n : genIsValidSyllable(n, poolSet))
         IN IF (current # StartMarker /\ ~genIsValidSyllable(current, poolSet))
               \/ validNext = << >>
            THEN genValidTransitionsFrom(vt, bigrams, poolSet, i + 1)
            ELSE genValidTransitionsFrom(
                     [keys |-> Append(vt.keys, current),
                      next |-> Append(vt.next, validNext)],
                     bigrams, poolSet, i + 1)

genValidTransitions(bigrams, options) ==
    genValidTransitionsFrom(NoTransitions, bigrams, poolSetOf(options), 1)

maxAdjacentIdenticalSyllables == 2

\* the stack frame [currentSyllable, currentLength, hasCenter, syllableList]
Frame(syl, len, hasCenter, syls) ==
    [syl |-> syl, len |-> len, hasCenter |-> hasCenter, syls |-> syls]

\* the frame pushed for candidate `next` of frame f
genPushed(f, next, options) ==
    Frame(next, f.len + Len(next),
          f.hasCenter \/ options.center \in Range(next),
          Append(f.syls, next))

\* genPruned without the rule on identical syllables in a row
genPrunedLengthOnly(f, next, options) ==
    f.len + Len(next) > options.maxLen

\* whether candidate `next` of frame f is pruned: too long, or a third
\* identical syllable in a row
genPruned(f, next, options) ==
    \/ f.len + Len(next) > options.maxLen
    \/ /\ Len(f.syls) >= maxAdjacentIdenticalSyllables
       /\ f.syls[Len(f.syls)] = next
       /\ f.syls[Len(f.syls) - 1] = next

\* genYields without the center flag
genYieldsAnyLetters(f, options) == f.len >= options.minLen

\* whether frame f yields its word when the candidate is '$$'
genYields(f, options) == f.len >= options.minLen /\ f.hasCenter

\* the loop `for (const next of candidates)` for the popped frame f, from
\* the j-th candidate on: g.stack grows by the frames pushed, g.out by the
\* words yielded (each kept with the syllables it was joined from)
RECURSIVE genCandidates(_, _, _, _, _)
genCandidates(g, f, candidates, j, options) ==
    IF j > Len(candidates) THEN g
    ELSE LET next == candidates[j]
             g2 == IF next = EndMarker
                   THEN IF genYields(f, options)
                        THEN [g EXCEPT !.out = Append(@, [word |-> join(f.syls),
                                                          syllables |-> f.syls])]
                        ELSE g
                   ELSE IF genPruned(f, next, options) THEN g
                   ELSE [g EXCEPT !.stack = Append(@, genPushed(f, next, options))]
         IN genCandidates(g2, f, candidates, j + 1, options)

\* genIteration that leaves a frame without candidates on the stack
genIterationKeepsFrame(g, options) ==
    LET f == g.stack[Len(g.stack)]
        popped == [g EXCEPT !.stack = SubSeq(@, 1, Len(@) - 1)]
        candidates == nextKeys(g.validTransitions, f.syl)
    IN IF candidates = << >> THEN g
       ELSE genCandidates(popped, f, candidates, 1, options)

\* one iteration of `while (stack.length > 0)`: pop a frame and go through
\* its candidates
genIteration(g, options) ==
    LET f == g.stack[Len(g.stack)]
        popped == [g EXCEPT !.stack = SubSeq(@, 1, Len(@) - 1)]
    IN genCandidates(popped, f, nextKeys(g.validTransitions, f.syl), 1, options)

\* the generator's locals before its first iteration: validTransitions is
\* computed once, from the tables as they are when the generator starts
genStart(m, options) ==
    [ validTransitions |-> genValidTransitions(m.syllableBigrams, options),
      stack |-> <<Frame(StartMarker, 0, FALSE, << >>)>>,
      out |-> << >> ]

RECURSIVE genRun(_, _)

\* genRun that stops after one iteration
genRunOnce(g, options) ==
    IF g.stack = << >> THEN g ELSE genIteration(g, options)

\* the generator run to its end
genRun(g, options) ==
    IF g.stack = << >> THEN g ELSE genRun(genIteration(g, options), options)

\* Array.from(generateViableWords(options)): everything the generator yields
generateViableWords(m, options) == genRun(genStart(m, options), options).out

\* countLoop that stops after the first item
countLoopOnce(yielded, i, count) ==
    IF i > Len(yielded) THEN count ELSE count + 1

\* the loop `for (const _ of ...) count++` over the yielded items
RECURSIVE countLoop(_, _, _)
countLoop(yielded, i, count) ==
    IF i > Len(yielded) THEN count ELSE countLoop(yielded, i + 1, count + 1)

countViableWords(m, options) == countLoop(generateViableWords(m, options), 1, 0)

(***************************************************************************)
(* PhonotacticScorer.getRandomViableWord.                                  *)
(***************************************************************************)
\* rwIsValidSyllable without the pool
rwIsValidSyllableAnyLetters(syl, poolSet) == TRUE

\* isValidSyllable of getRandomViableWord: both markers are valid
rwIsValidSyllable(syl, poolSet) ==
    syl = EndMarker \/ syl = StartMarker
        \/ \A i \in 1..Len(syl) : syl[i] \in poolSet

\* if (!map.has(key)) map.set(key, []); map.get(key).push(value)
mapPush(map, key, value) ==
    IF key \in Range(map.keys)
    THEN LET k == CHOOSE i \in 1..Len(map.keys) : map.keys[i] = key
         IN [map EXCEPT !.next[k] = Append(@, value)]
    ELSE [keys |-> Append(map.keys, key), next |-> Append(map.next, <<value>>)]

\* the forward and backward maps and the anchors, before any entry is read
rwNoMaps ==
    [ validTransitions |-> NoTransitions,
      validReverseTransitions |-> NoTransitions,
      anchorSyllables |-> << >> ]

\* the inner loop over Object.keys(nextMap) of the entry `current`
RECURSIVE rwMapsNext(_, _, _, _, _)
rwMapsNext(maps, current, nexts, j, poolSet) ==
    IF j > Len(nexts) THEN maps
    ELSE LET next == nexts[j]
         IN IF ~rwIsValidSyllable(next, poolSet)
            THEN rwMapsNext(maps, current, nexts, j + 1, poolSet)
            ELSE rwMapsNext(
                     [maps EXCEPT
                        !.validTransitions = mapPush(@, current, next),
                        !.validReverseTransitions = mapPush(@, next, current)],
                     current, nexts, j + 1, poolSet)

\* step 1 of getRandomViableWord, from the i-th entry of syllableBigrams on
RECURSIVE rwMapsFrom(_, _, _, _)
rwMapsFrom(maps, bigrams, options, i) ==
    IF i > Len(bigrams.keys) THEN maps
    ELSE LET current == bigrams.keys[i]
             poolSet == poolSetOf(options)
         IN IF ~rwIsValidSyllable(current, poolSet)
            THEN rwMapsFrom(maps, bigrams, options, i + 1)
            ELSE LET anchored ==
                         IF current # StartMarker /\ current # EndMarker
                            /\ options.center \in Range(current)
                         THEN [maps EXCEPT !.anchorSyllables = Append(@, current)]
                         ELSE maps
                 IN rwMapsFrom(rwMapsNext(anchored, current, bigrams.next[i],
                                          1, poolSet),
                               bigrams, options, i + 1)

\* rwMaps with '^^' as the anchor when no syllable is one
rwMapsAnchorDefault(bigrams, options) ==
    LET maps == rwMapsFrom(rwNoMaps, bigrams, options, 1)
    IN IF maps.anchorSyllables = << >>
       THEN [maps EXCEPT !.anchorSyllables = <<StartMarker>>]
       ELSE maps

rwMaps(bigrams, options) == rwMapsFrom(rwNoMaps, bigrams, options, 1)

\* a step ceiling two steps higher
StepCeilingRaised == 10 + 2

\* the limit of backSteps and fwdSteps
StepCeiling == 10

\* step 6: whether the syllables hold three identical ones in a row
hasTooManyRepeats(fullWordSyllables) ==
    \E i \in 1..(Len(fullWordSyllables) - 1) :
        /\ fullWordSyllables[i] = fullWordSyllables[i + 1]
        /\ i + 2 <= Len(fullWordSyllables)
        /\ fullWordSyllables[i + 2] = fullWordSyllables[i]

\* rwAccepts without step 6's check of repeated syllables
rwAcceptsAnyRepeats(fullWordSyllables, options) ==
    LET word == join(fullWordSyllables)
    IN ~(Len(word) < options.minLen \/ Len(word) > options.maxLen)

\* steps 5 and 6: the candidate is returned unless its length is out of
\* range or it repeats a syllable three times
rwAccepts(fullWordSyllables, options) ==
    LET word == join(fullWordSyllables)
    IN /\ ~(Len(word) < options.minLen \/ Len(word) > options.maxLen)
       /\ ~hasTooManyRepeats(fullWordSyllables)

(***************************************************************************)
(* PhonotacticScorer.filterModel, importModel.  A table that is undefined  *)
(* is a field the scorer's record does not have.                           *)
(***************************************************************************)
\* the indices of seq, in order, whose element is one of `kept`
KeptIndices(seq, kept) ==
    SelectSeq([i \in 1..Len(seq) |-> i], LAMBDA i : seq[i] \in kept)

\* the elements of seq at the indices idx
Pick(seq, idx) == [x \in 1..Len(idx) |-> seq[idx[x]]]

\* fmIsValid without the exception for the markers
fmIsValidPoolOnly(str, poolSet) == \A i \in 1..Len(str) : str[i] \in poolSet

\* isValid of filterModel: the two markers, or pool characters only
fmIsValid(str, poolSet) ==
    str = StartMarker \/ str = EndMarker
        \/ \A i \in 1..Len(str) : str[i] \in poolSet

\* context.replace(/\^\^/g, '')
RECURSIVE removeStartMarkers(_)
removeStartMarkers(str) ==
    IF Len(str) < 2 THEN str
    ELSE IF str[1] = "^" /\ str[2] = "^"
    THEN removeStartMarkers(SubSeq(str, 3, Len(str)))
    ELSE <<str[1]>> \o removeStartMarkers(Tail(str))

\* filteredCharTransitions
fmCharTransitions(ct, poolSet) ==
    LET nextKept(k) ==
            KeptIndices(ct.next[k],
                        {char \in Range(ct.next[k]) : fmIsValid(<<char>>, poolSet)})
        contextKept ==
            SelectSeq([k \in 1..Len(ct.keys) |-> k],
                      LAMBDA k : /\ fmIsValid(removeStartMarkers(ct.keys[k]), poolSet)
                                 /\ Len(nextKept(k)) > 0)
    IN [keys |-> Pick(ct.keys, contextKept),
        next |-> [x \in 1..Len(contextKept) |->
                    Pick(ct.next[contextKept[x]], nextKept(contextKept[x]))],
        value |-> [x \in 1..Len(contextKept) |->
                    Pick(ct.value[contextKept[x]], nextKept(contextKept[x]))]]

\* filteredSyllableBigrams
fmSyllableBigrams(sb, poolSet) ==
    LET nextKept(k) ==
            KeptIndices(sb.next[k],
                        {next \in Range(sb.next[k]) : fmIsValid(next, poolSet)})
        currentKept ==
            SelectSeq([k \in 1..Len(sb.keys) |-> k],
                      LAMBDA k : /\ fmIsValid(sb.keys[k], poolSet)
                                 /\ Len(nextKept(k)) > 0)
    IN [keys |-> Pick(sb.keys, currentKept),
        next |-> [x \in 1..Len(currentKept) |->
                    Pick(sb.next[currentKept[x]], nextKept(currentKept[x]))]]

\* filterModel(pool)
filterModel(m, pool) ==
    [charTransitions |-> fmCharTransitions(m.charTransitions, Range(pool)),
     syllableBigrams |-> fmSyllableBigrams(m.syllableBigrams, Range(pool))]

\* the two tables of a scorer or of a model document
TableNames == {"charTransitions", "syllableBigrams"}

\* importModel(data): both fields are assigned from data, as they are
importModel(data) == [f \in DOMAIN data \cap TableNames |-> data[f]]

\* whether this.<table> is an object
hasTable(m, table) == table \in DOMAIN m

\* exportModel(): JSON.stringify leaves out a field that is undefined and
\* writes every entry of a table, in order
exportModel(m) == [f \in DOMAIN m \cap TableNames |-> m[f]]

\* isValid of countValidSyllables: no marker, pool characters only
cvIsValid(str, poolSet) ==
    /\ str # StartMarker /\ str # EndMarker
    /\ \A i \in 1..Len(str) : str[i] \in poolSet

\* countValidSyllables(pool): the size of the set of valid syllables among
\* the contexts and the successors of syllableBigrams
countValidSyllables(m, pool) ==
    LET sb == m.syllableBigrams
        syllables ==
            { sb.keys[k] : k \in {x \in 1..Len(sb.keys) :
                                     cvIsValid(sb.keys[x], Range(pool))} }
            \cup UNION { { sb.next[k][j] :
                             j \in {y \in 1..Len(sb.next[k]) :
                                      cvIsValid(sb.next[k][y], Range(pool))} } :
                         k \in 1..Len(sb.keys) }
    IN Cardinality(syllables)

\* the (table, context) pairs of the filtered tables that would be the
\* scorer's own nextMap: each whose successors are all kept
fmSharesWholeMaps(m, pool) ==
    { <<"syllableBigrams", m.syllableBigrams.keys[k]>> :
        k \in { x \in 1..Len(m.syllableBigrams.keys) :
                  /\ fmIsValid(m.syllableBigrams.keys[x], Range(pool))
                  /\ \A j \in 1..Len(m.syllableBigrams.next[x]) :
                        fmIsValid(m.syllableBigrams.next[x][j], Range(pool)) } }

\* the (table, context) pairs of the result of filterModel whose nextMap is
\* an object of the scorer: none, every table and every nextMap of the
\* result is a new object literal
fmShares(m, pool) == {}

\* delete table[context][...]: the successors of a context are removed
clearContext(table, context) ==
    IF context \notin Range(table.keys) THEN table
    ELSE LET k == CHOOSE i \in 1..Len(table.keys) : table.keys[i] = context
         IN [f \in DOMAIN table |->
               IF f = "keys" THEN table.keys
               ELSE [table[f] EXCEPT ![k] = << >>]]

(***************************************************************************)
(* The trie as a state machine: a sequential series of calls on one        *)
(* WordFreqTrie.  Each action is one whole call; its arguments and result  *)
(* stay in `last` until the caller goes on.                                *)
(***************************************************************************)
\* the two callers of the concurrent trie, neither with a call in flight
Callers == {1, 2}
NoCalls == [base |-> NoRoots, of |-> [p \in Callers |-> [pc |-> "idle"]]]

\* the strings callers pass to find and getWordsWithPrefix
QueryStrings ==
    StringsUpTo(Chars \ BadBlobChars, MaxWordLen)
      \cup { <<c>> \o rest : c \in BadBlobChars, rest \in StringsUpTo(LowerLetters, 1) }
FallbackFreqs == {0, 2}
\* puzzle letters, in either case; every letter has a segment file
PuzzleLetters == LowerLetters \cup UpperLetters
MinLengths == 0..MaxMinLength

NoCall ==
    [ op |-> "none", word |-> << >>, fallbackFreq |-> 0, validLetters |-> << >>,
      requiredLetter |-> "a", minLength |-> 0, threw |-> FALSE, results |-> << >>,
      loads |-> << >> ]

\* the characters the loader is invoked for by getRoot(chars)
loadsOf(rts, chars) == getRoot(rts, chars).loads

\* a phonotactic call that has not started
GenIdle == [pc |-> "idle"]
RwIdle == [pc |-> "idle"]

Init ==
    /\ roots = NoRoots
    /\ last = NoCall
    /\ gen = GenIdle
    /\ rw = RwIdle
    /\ model = train(TrainingWords)
    /\ calls = NoCalls

Find(word, fallbackFreq) ==
    LET r == find(roots, word, fallbackFreq)
    IN /\ last.op = "none"
       /\ roots' = r.roots
       /\ last' = [NoCall EXCEPT !.op = "find", !.word = word,
                                 !.fallbackFreq = fallbackFreq,
                                 !.threw = r.threw, !.results = r.results,
                                 !.loads = IF word = << >> THEN << >>
                                           ELSE loadsOf(roots, <<word[1]>>)]
       /\ UNCHANGED <<gen, rw, model, calls>>

GetWordsWithPrefix(prefix) ==
    LET r == getWordsWithPrefix(roots, prefix)
    IN /\ last.op = "none"
       /\ roots' = r.roots
       /\ last' = [NoCall EXCEPT !.op = "getWordsWithPrefix", !.word = prefix,
                                 !.threw = r.threw, !.results = r.results,
                                 !.loads = IF prefix = << >> THEN << >>
                                           ELSE loadsOf(roots, <<prefix[1]>>)]
       /\ UNCHANGED <<gen, rw, model, calls>>

Solve(validLetters, requiredLetter, minLength) ==
    LET r == solve(roots, validLetters, requiredLetter, minLength)
    IN /\ last.op = "none"
       /\ roots' = r.roots
       /\ last' = [NoCall EXCEPT !.op = "solve", !.validLetters = validLetters,
                                 !.requiredLetter = requiredLetter,
                                 !.minLength = minLength,
                                 !.threw = r.threw, !.results = r.results,
                                 !.loads = loadsOf(roots,
                                               Dedupe(lowerStr(validLetters)))]
       /\ UNCHANGED <<gen, rw, model, calls>>

\* a second solve, with the letters and the required letter of the call
\* before it and another minimum length
SolveAgain(minLength) ==
    LET r == solve(roots, last.validLetters, last.requiredLetter, minLength)
    IN /\ last.op = "solve"
       /\ minLength # last.minLength
       /\ roots' = r.roots
       /\ last' = [NoCall EXCEPT !.op = "solveAgain",
                                 !.validLetters = last.validLetters,
                                 !.requiredLetter = last.requiredLetter,
                                 !.minLength = minLength,
                                 !.threw = r.threw, !.results = r.results,
                                 !.loads = loadsOf(roots,
                                               Dedupe(lowerStr(last.validLetters)))]
                  @@ [before |-> last]
       /\ UNCHANGED <<gen, rw, model, calls>>

\* the caller takes the result of its call and goes on to the next one
Return ==
    /\ last.op # "none"
    /\ last' = NoCall
    /\ UNCHANGED <<roots, gen, rw, model, calls>>

NextTrie ==
    \/ Return
    \/ \E word \in QueryStrings, fallbackFreq \in FallbackFreqs :
            Find(word, fallbackFreq)
    \/ \E prefix \in QueryStrings : GetWordsWithPrefix(prefix)
    \/ \E S \in SUBSET PuzzleLetters, requiredLetter \in PuzzleLetters,
          minLength \in MinLengths :
            Solve(ArrayOf(S), requiredLetter, minLength)
    \/ \E minLength \in MinLengths : SolveAgain(minLength)

SpecTrie == Init /\ [][NextTrie]_vars

(***************************************************************************)
(* The scorer as a state machine: one call at a time on a trained scorer.  *)
(* A generateViableWords generator is advanced one loop iteration at a     *)
(* time by its consumer; countViableWords is one synchronous call.         *)
(***************************************************************************)
Pools == { <<"a", "b">>, <<"b", "c">> }
Centers == {"a", "b", "c"}
MinLens == 2..4
MaxLens == 4..MaxLen
Options == [pool : Pools, center : Centers, minLen : MinLens, maxLen : MaxLens]

PhonIdle == gen.pc = "idle" /\ rw.pc = "idle"

\* generateViableWords(options) is called and the generator starts
StartGenerate(options) ==
    /\ PhonIdle
    /\ gen' = IF hasTable(model, "syllableBigrams")
               THEN [pc |-> "running", options |-> options, run |-> 1,
                     first |-> << >>] @@ genStart(model, options)
               ELSE [pc |-> "threw", options |-> options]
    /\ UNCHANGED <<roots, last, rw, model, calls>>

\* the caller has the words of a completed run and calls
\* generateViableWords again with the same options: a new generator starts
StartGenerateAgain ==
    /\ gen.pc = "done"
    /\ gen.run = 1
    /\ gen' = [pc |-> "running", options |-> gen.options, run |-> 2,
               first |-> gen.out] @@ genStart(model, gen.options)
    /\ UNCHANGED <<roots, last, rw, model, calls>>

\* the generator runs one iteration of its loop; it completes when the
\* stack is empty
GenIterate ==
    /\ gen.pc = "running"
    /\ LET g == genIteration([validTransitions |-> gen.validTransitions,
                              stack |-> gen.stack, out |-> gen.out],
                             gen.options)
       IN gen' = [pc |-> IF g.stack = << >> THEN "done" ELSE "running",
                  options |-> gen.options, run |-> gen.run,
                  first |-> gen.first] @@ g
    /\ UNCHANGED <<roots, last, rw, model, calls>>

\* countViableWords(options), a whole call
CountViableWords(options) ==
    /\ PhonIdle
    /\ gen' = IF hasTable(model, "syllableBigrams")
               THEN [pc |-> "counted", options |-> options,
                     count |-> countViableWords(model, options)]
               ELSE [pc |-> "threw", options |-> options]
    /\ UNCHANGED <<roots, last, rw, model, calls>>

\* the caller is done with the generator or the count
GenReturn ==
    /\ gen.pc \in {"done", "counted", "threw"}
    /\ gen' = GenIdle
    /\ UNCHANGED <<roots, last, rw, model, calls>>

NextGen ==
    \/ \E options \in Options : StartGenerate(options)
    \/ StartGenerateAgain
    \/ GenIterate
    \/ \E options \in Options : CountViableWords(options)
    \/ GenReturn

SpecGen == Init /\ [][NextGen]_vars

\* the runs of the generator alone
NextGenRuns ==
    \/ \E options \in Options : StartGenerate(options)
    \/ StartGenerateAgain
    \/ GenIterate
    \/ GenReturn

\* the consumer of a generator goes on asking for words (Array.from, for
\* ... of): a generator that is running runs its next iteration
SpecGenFair == Init /\ [][NextGenRuns]_vars /\ WF_vars(GenIterate)

(***************************************************************************)
(* getRandomViableWord as a state machine: each Math.random() draw is a    *)
(* step of its own.                                                        *)
(***************************************************************************)
RwOptions ==
    [pool : Pools, center : Centers \cup UpperLetters,
     minLen : {3}, maxLen : {MaxLen - 1, MaxLen}]

\* the value returned: null, or the word (kept with its syllables)
Null == [isNull |-> TRUE, word |-> << >>, syllables |-> << >>]
Word(syllables) ==
    [isNull |-> FALSE, word |-> join(syllables), syllables |-> syllables]

RwReturned(r, result) ==
    [pc |-> "returned", options |-> r.options, maxRetries |-> r.maxRetries,
     result |-> result]

\* the top of the attempt loop, for attempt number `attempt`
RwAttempt(r, attempt) ==
    [pc |-> "attempt", options |-> r.options, maxRetries |-> r.maxRetries,
     maps |-> r.maps, attempt |-> attempt]

\* the call starts: the maps are built; null at once if there is no anchor
StartRandom(options, maxRetries) ==
    /\ PhonIdle
    /\ LET maps == rwMaps(model.syllableBigrams, options)
           r == [options |-> options, maxRetries |-> maxRetries, maps |-> maps]
       IN rw' = IF ~hasTable(model, "syllableBigrams")
                THEN [pc |-> "threw", options |-> options,
                      maxRetries |-> maxRetries]
                ELSE IF maps.anchorSyllables = << >>
                THEN RwReturned(r, Null)
                ELSE RwAttempt(r, 0)
    /\ UNCHANGED <<roots, last, gen, model, calls>>

\* all attempts were used up: null
RwGiveUp ==
    /\ rw.pc = "attempt"
    /\ ~(rw.attempt < rw.maxRetries)
    /\ rw' = RwReturned(rw, Null)
    /\ UNCHANGED <<roots, last, gen, model, calls>>

\* step 2: a random anchor is the seed of this attempt
RwPickSeed ==
    /\ rw.pc = "attempt"
    /\ rw.attempt < rw.maxRetries
    /\ \E s \in 1..Len(rw.maps.anchorSyllables) :
          rw' = [RwAttempt(rw, rw.attempt) EXCEPT !.pc = "back"] @@
                [ seed |-> rw.maps.anchorSyllables[s],
                  prefixParts |-> << >>,
                  currentBack |-> rw.maps.anchorSyllables[s],
                  backSteps |-> 0 ]
    /\ UNCHANGED <<roots, last, gen, model, calls>>

\* step 3, a dead end: currentBack has no predecessor
RwBackDeadEnd ==
    /\ rw.pc = "back"
    /\ nextKeys(rw.maps.validReverseTransitions, rw.currentBack) = << >>
    /\ rw' = RwAttempt(rw, rw.attempt + 1)
    /\ UNCHANGED <<roots, last, gen, model, calls>>

\* step 3: one random step backwards; the attempt fails on the step after
\* the ceiling, and the walk ends at '^^'
RwBackStep ==
    /\ rw.pc = "back"
    /\ LET prevCandidates == nextKeys(rw.maps.validReverseTransitions,
                                      rw.currentBack)
       IN \E p \in 1..Len(prevCandidates) :
            LET prev == prevCandidates[p]
                prefixParts == IF prev # StartMarker
                               THEN <<prev>> \o rw.prefixParts
                               ELSE rw.prefixParts
                backSteps == rw.backSteps + 1
            IN rw' = IF backSteps > StepCeiling
                     THEN RwAttempt(rw, rw.attempt + 1)
                     ELSE IF prev = StartMarker
                     THEN [RwAttempt(rw, rw.attempt) EXCEPT !.pc = "fwd"] @@
                          [ seed |-> rw.seed, prefixParts |-> prefixParts,
                            suffixParts |-> << >>, currentFwd |-> rw.seed,
                            fwdSteps |-> 0 ]
                     ELSE [rw EXCEPT !.prefixParts = prefixParts,
                                     !.currentBack = prev,
                                     !.backSteps = backSteps]
    /\ UNCHANGED <<roots, last, gen, model, calls>>

\* step 4, a dead end: currentFwd has no successor
RwFwdDeadEnd ==
    /\ rw.pc = "fwd"
    /\ nextKeys(rw.maps.validTransitions, rw.currentFwd) = << >>
    /\ rw' = RwAttempt(rw, rw.attempt + 1)
    /\ UNCHANGED <<roots, last, gen, model, calls>>

\* step 4: one random step forwards; when the walk ends at '$$' the
\* candidate is built and validated (steps 5 and 6)
RwFwdStep ==
    /\ rw.pc = "fwd"
    /\ LET nextCandidates == nextKeys(rw.maps.validTransitions, rw.currentFwd)
       IN \E n \in 1..Len(nextCandidates) :
            LET next == nextCandidates[n]
                suffixParts == IF next # EndMarker
                               THEN Append(rw.suffixParts, next)
                               ELSE rw.suffixParts
                fwdSteps == rw.fwdSteps + 1
                fullWordSyllables == rw.prefixParts \o <<rw.seed>> \o suffixParts
            IN rw' = IF fwdSteps > StepCeiling
                     THEN RwAttempt(rw, rw.attempt + 1)
                     ELSE IF next = EndMarker
                     THEN IF rwAccepts(fullWordSyllables, rw.options)
                          THEN RwReturned(rw, Word(fullWordSyllables))
                          ELSE RwAttempt(rw, rw.attempt + 1)
                     ELSE [rw EXCEPT !.suffixParts = suffixParts,
                                     !.currentFwd = next,
                                     !.fwdSteps = fwdSteps]
    /\ UNCHANGED <<roots, last, gen, model, calls>>

\* the caller asks isViable(word) of the word it got; the syllabifier cuts
\* the word in some way
RwIsViable ==
    /\ rw.pc = "returned"
    /\ ~rw.result.isNull
    /\ \E syllables \in Segmentations(rw.result.word) :
          rw' = IF ~hasTable(model, "charTransitions")
                THEN [pc |-> "threw", options |-> rw.options,
                      maxRetries |-> rw.maxRetries]
                ELSE [pc |-> "checked", options |-> rw.options,
                      maxRetries |-> rw.maxRetries, result |-> rw.result,
                      syllables |-> syllables,
                      viable |-> isViable(model, syllables)]
    /\ UNCHANGED <<roots, last, gen, model, calls>>

\* the caller is done with the result
RwReturn ==
    /\ rw.pc \in {"returned", "checked", "threw"}
    /\ rw' = RwIdle
    /\ UNCHANGED <<roots, last, gen, model, calls>>

NextRand ==
    \/ \E options \in RwOptions : StartRandom(options, MaxRetries)
    \/ RwGiveUp
    \/ RwPickSeed
    \/ RwBackDeadEnd
    \/ RwBackStep
    \/ RwFwdDeadEnd
    \/ RwFwdStep
    \/ RwIsViable
    \/ RwReturn

SpecRand == Init /\ [][NextRand]_vars

\* the steps of a call in progress: the attempt loop and both walks
RwWalk ==
    \/ RwGiveUp
    \/ RwPickSeed
    \/ RwBackDeadEnd
    \/ RwBackStep
    \/ RwFwdDeadEnd
    \/ RwFwdStep

\* getRandomViableWord is synchronous: once called it runs on, step after
\* step, until it returns
SpecRandFair == SpecRand /\ WF_vars(RwWalk)

(***************************************************************************)
(* The scorer's model and its queries as a state machine: a model document *)
(* is imported, then isViable and filterModel are called on the scorer.    *)
(***************************************************************************)
\* a document whose character table gives 'a' the score -4.0 exactly, 'b' a
\* score just above it, and 'c' one transition just under -6.0
BoundaryDocument ==
    [charTransitions |->
        [keys |-> << <<"^", "^">>, <<"^", "a">>, <<"a", "$">>,
                     <<"^", "b">>, <<"b", "$">>, <<"^", "c">>, <<"c", "$">> >>,
         next |-> << <<"a", "b", "c">>, <<"$">>, <<"$">>,
                     <<"$">>, <<"$">>, <<"$">>, <<"$">> >>,
         value |-> << <<-6000, -5999, -6001>>, <<-6000>>, <<0>>,
                      <<-6000>>, <<0>>, <<0>>, <<0>> >>],
     syllableBigrams |->
        [keys |-> << StartMarker, <<"a">>, <<"b">>, <<"c">> >>,
         next |-> << << <<"a">>, <<"b">>, <<"c">> >>,
                     <<EndMarker>>, <<EndMarker>>, <<EndMarker>> >>]]

\* a document with the trained character table and a syllable table in
\* which 'a' is followed by 'c' only and 'ab' by 'a', 'ab' or the end: for
\* the pool 'ab' the context 'a' keeps no successor
DeadEndDocument ==
    [charTransitions |-> train(TrainingWords).charTransitions,
     syllableBigrams |->
        [keys |-> << StartMarker, <<"a">>, <<"a", "b">>, <<"c">> >>,
         next |-> << << <<"a">>, <<"a", "b">> >>,
                     << <<"c">> >>,
                     << <<"a">>, <<"a", "b">>, EndMarker >>,
                     <<EndMarker>> >>]]

\* a document without the table `table`
Without(document, table) ==
    [f \in DOMAIN document \ {table} |-> document[f]]

\* the documents given to importModel: the export of the trained scorer,
\* the boundary document, and each with one table missing
ModelDocuments ==
    LET whole == {train(TrainingWords), BoundaryDocument, DeadEndDocument}
    IN whole \cup {Without(d, t) : d \in whole, t \in TableNames}

\* the words scored and the options of the generators in a series of
\* calls of every kind
QueryWords == { <<"a">>, <<"a", "b">>, <<"c", "a", "b">> }
QueryOptions ==
    [pool : { <<"a", "b">>, <<"b">> }, center : {"a", "c"}, minLen : {3},
     maxLen : {MaxLen}]

\* the contexts a caller may write to: those of the syllable table and the
\* start context of the character table
QueryContexts ==
    {StartMarker} \cup Range(train(TrainingWords).syllableBigrams.keys)

\* the arguments of filterModel
FilterPools == { <<"a">>, <<"a", "b">>, <<"a", "b", "c">> }

\* importModel(data), a whole call
ImportModel(data) ==
    /\ last.op = "none"
    /\ PhonIdle
    /\ model' = importModel(data)
    /\ last' = [op |-> "importModel", data |-> data, threw |-> FALSE]
    /\ UNCHANGED <<roots, gen, rw, calls>>

\* isViable(word), a whole call; the syllabifier cuts the word in some way,
\* and reading a table that is undefined throws
IsViable(word) ==
    /\ last.op = "none"
    /\ PhonIdle
    /\ \E syllables \in Segmentations(word) :
          last' = IF Len(syllables) > 0 /\ ~hasTable(model, "charTransitions")
                  THEN [op |-> "isViable", word |-> word,
                        syllables |-> syllables, threw |-> TRUE]
                  ELSE [op |-> "isViable", word |-> word,
                        syllables |-> syllables, threw |-> FALSE,
                        viable |-> isViable(model, syllables)]
    /\ UNCHANGED <<roots, gen, rw, model, calls>>

\* score(word), a whole call; the syllabifier cuts the word in some way,
\* and reading a table that is undefined throws
Score(word) ==
    /\ last.op = "none"
    /\ PhonIdle
    /\ \E syllables \in Segmentations(word) :
          last' = IF Len(syllables) > 0 /\ ~hasTable(model, "charTransitions")
                  THEN [op |-> "score", word |-> word,
                        syllables |-> syllables, threw |-> TRUE]
                  ELSE [op |-> "score", word |-> word,
                        syllables |-> syllables, threw |-> FALSE,
                        score |-> score(model, syllables)]
    /\ UNCHANGED <<roots, gen, rw, model, calls>>

\* filterModel(pool), a whole call; Object.entries of a table that is
\* undefined throws
FilterModel(pool) ==
    /\ last.op = "none"
    /\ PhonIdle
    /\ last' = IF \A t \in TableNames : hasTable(model, t)
               THEN [op |-> "filterModel", pool |-> pool, threw |-> FALSE,
                     results |-> filterModel(model, pool),
                     shares |-> fmShares(model, pool)]
               ELSE [op |-> "filterModel", pool |-> pool, threw |-> TRUE]
    /\ UNCHANGED <<roots, gen, rw, model, calls>>

\* the caller of filterModel changes the tables it got: it removes the
\* successors of a context; an object the result shares with the scorer is
\* changed for the scorer too
CallerWrites(table, context) ==
    /\ last.op = "filterModel"
    /\ ~last.threw
    /\ context \in Range(last.results[table].keys)
    /\ last' = [op |-> "written", pool |-> last.pool, threw |-> FALSE,
                table |-> table, context |-> context,
                results |-> [last.results EXCEPT
                               ![table] = clearContext(@, context)],
                shares |-> last.shares]
    /\ model' = IF <<table, context>> \in last.shares
                THEN [model EXCEPT ![table] = clearContext(@, context)]
                ELSE model
    /\ UNCHANGED <<roots, gen, rw, calls>>

\* exportModel(), a whole call
ExportModel ==
    /\ last.op = "none"
    /\ PhonIdle
    /\ last' = [op |-> "exportModel", threw |-> FALSE,
                results |-> exportModel(model)]
    /\ UNCHANGED <<roots, gen, rw, model, calls>>

\* countValidSyllables(pool), a whole call; Object.entries of a table that
\* is undefined throws
CountValidSyllables(pool) ==
    /\ last.op = "none"
    /\ PhonIdle
    /\ last' = IF hasTable(model, "syllableBigrams")
               THEN [op |-> "countValidSyllables", pool |-> pool, threw |-> FALSE,
                     results |-> countValidSyllables(model, pool)]
               ELSE [op |-> "countValidSyllables", pool |-> pool, threw |-> TRUE]
    /\ UNCHANGED <<roots, gen, rw, model, calls>>

NextScore ==
    \/ \E data \in ModelDocuments : ImportModel(data)
    \/ \E word \in QueryStrings : IsViable(word)
    \/ \E word \in QueryStrings : Score(word)
    \/ \E pool \in FilterPools : FilterModel(pool)
    \/ Return

SpecScore == Init /\ [][NextScore]_vars

\* every operation of the scorer, one call after the other, with a caller
\* that keeps and changes what filterModel returned
NextQueries ==
    \/ \E data \in ModelDocuments : ImportModel(data)
    \/ \E word \in QueryWords : IsViable(word)
    \/ \E word \in QueryWords : Score(word)
    \/ \E pool \in FilterPools : FilterModel(pool)
    \/ \E table \in TableNames, context \in QueryContexts :
          CallerWrites(table, context)
    \/ ExportModel
    \/ \E pool \in FilterPools : CountValidSyllables(pool)
    \/ \E options \in QueryOptions : StartGenerate(options)
    \/ StartGenerateAgain
    \/ GenIterate
    \/ \E options \in QueryOptions : CountViableWords(options)
    \/ GenReturn
    \/ \E options \in QueryOptions : StartRandom(options, MaxRetries)
    \/ RwWalk
    \/ RwIsViable
    \/ RwReturn
    \/ Return

SpecQueries == Init /\ [][NextQueries]_vars

(***************************************************************************)
(* Trie calls in flight at the same time.  A call runs without             *)
(* interruption from one await to the next: from the call to the loader    *)
(* invocation of getRoot, from the loader's answer to the next loader      *)
(* invocation or to getRoot's return, and from getRoot's return to the end *)
(* of the call.  Two callers each make one call; the calls proceed in any  *)
(* order.                                                                  *)
(***************************************************************************)
\* the calls the two callers make
ConcCalls ==
    { [NoCall EXCEPT !.op = "find", !.word = w, !.fallbackFreq = 2] :
        w \in { <<"a", "b">>, <<"A", "b">>, <<"b">>, <<"1", "a">>, <<"2">>, <<"3">> } }
    \cup
    { [NoCall EXCEPT !.op = "getWordsWithPrefix", !.word = w] :
        w \in { <<"a">>, <<"b", "a">> } }
    \cup
    { [NoCall EXCEPT !.op = "solve", !.validLetters = l, !.requiredLetter = "a",
                     !.minLength = 2] :
        l \in { <<"a", "b">>, <<"c", "A">> } }

\* the argument of getRoot in the call
charsOf(call) ==
    IF call.op = "solve" THEN Dedupe(lowerStr(call.validLetters))
    ELSE <<call.word[1]>>

\* the loop of getRoot from its i-th character up to the next loader
\* invocation (await TRUE, i the character to load) or to the end of the
\* loop (await FALSE)
RECURSIVE getRootSync(_, _, _, _, _)
getRootSync(rts, children, keys, chars, i) ==
    IF i > Len(chars)
    THEN [await |-> FALSE, i |-> i, children |-> children, keys |-> keys]
    ELSE LET char == chars[i]
         IN IF Falsy(rts[toLowerCase(char)])
            THEN [await |-> TRUE, i |-> i, children |-> children, keys |-> keys]
            ELSE getRootSync(rts, [children EXCEPT ![char] = rts[char]],
                             IF char \in Range(keys) THEN keys ELSE Append(keys, char),
                             chars, i + 1)

\* getRootResume that reads the cache entry it took before the load
getRootResumeStale(rts, children, keys, chars, i) ==
    LET char == chars[i]
        rts2 == [rts EXCEPT ![char] = unpack(loader(char).blob)]
    IN [roots |-> rts2,
        g |-> getRootSync(rts2, [children EXCEPT ![char] = rts[char]],
                          IF char \in Range(keys) THEN keys ELSE Append(keys, char),
                          chars, i + 1)]

\* getRoot goes on after the blob of its i-th character was decoded: the
\* segment is stored, read back into children, and the loop goes on
getRootResume(rts, children, keys, chars, i) ==
    LET char == chars[i]
        rts2 == [rts EXCEPT ![char] = unpack(loader(char).blob)]
    IN [roots |-> rts2,
        g |-> getRootSync(rts2, [children EXCEPT ![char] = rts2[char]],
                          IF char \in Range(keys) THEN keys ELSE Append(keys, char),
                          chars, i + 1)]

\* the part of find / getWordsWithPrefix / solve after getRoot returned node
finishCall(call, node) ==
    IF call.op = "find"
    THEN LET current == walk(node, lowerStr(call.word), 1)
         IN IF current.defined /\ isEndOfWord(current)
            THEN <<WordStats(call.word, frequency(current))>>
            ELSE <<NotFound(call.word, call.fallbackFreq)>>
    ELSE IF call.op = "getWordsWithPrefix"
    THEN LET current == walk(node, lowerStr(call.word), 1)
         IN IF ~current.defined THEN << >> ELSE collectWords(current, call.word)
    ELSE LET found == dfs(node, << >>, FALSE,
                          Range(Dedupe(lowerStr(call.validLetters))),
                          toLowerCase(call.requiredLetter), call.minLength)
         IN [i \in 1..Len(found) |->
                WordStats(found[i].word, frequency(found[i].node))]

\* the call as one caller alone makes it
seqCall(rts, call) ==
    IF call.op = "find" THEN find(rts, call.word, call.fallbackFreq)
    ELSE IF call.op = "getWordsWithPrefix" THEN getWordsWithPrefix(rts, call.word)
    ELSE solve(rts, call.validLetters, call.requiredLetter, call.minLength)

\* the state of a call in flight after the loop of getRoot stopped as g
Awaiting(call, g, loads) ==
    [pc |-> IF g.await THEN "loading" ELSE "walk", call |-> call, i |-> g.i,
     children |-> g.children, keys |-> g.keys,
     loads |-> IF g.await THEN Append(loads, charsOf(call)[g.i]) ELSE loads,
     threw |-> FALSE, results |-> << >>]

\* a caller makes its call; the call runs up to its first await
ConcCall(p, call) ==
    /\ last.op = "none"
    /\ calls.of[p].pc = "idle"
    /\ calls' = [base |-> IF \A q \in Callers : calls.of[q].pc = "idle"
                          THEN roots ELSE calls.base,
                 of |-> [calls.of EXCEPT ![p] =
                            Awaiting(call,
                                     getRootSync(roots, NoRoots, << >>,
                                                 charsOf(call), 1),
                                     << >>)]]
    /\ UNCHANGED <<roots, last, gen, rw, model>>

\* the loader and gunzip answer a call: an error ends the call, a decoded
\* blob is stored and getRoot goes on
ConcLoaded(p) ==
    LET c == calls.of[p]
        chars == charsOf(c.call)
        buffer == loader(chars[c.i])
    IN /\ c.pc = "loading"
       /\ IF ~buffer.ok \/ ~decodes(buffer.blob)
          THEN /\ calls' = [calls EXCEPT !.of[p] = [c EXCEPT !.pc = "done",
                                                            !.threw = TRUE]]
               /\ roots' = roots
          ELSE LET r == getRootResume(roots, c.children, c.keys, chars, c.i)
               IN /\ roots' = r.roots
                  /\ calls' = [calls EXCEPT !.of[p] = Awaiting(c.call, r.g, c.loads)]
       /\ UNCHANGED <<last, gen, rw, model>>

\* getRoot has returned: the rest of the call runs to its end
ConcWalk(p) ==
    LET c == calls.of[p]
        node == [defined |-> TRUE, synth |-> TRUE,
                 children |-> c.children, keys |-> c.keys]
    IN /\ c.pc = "walk"
       /\ calls' = [calls EXCEPT !.of[p] = [c EXCEPT !.pc = "done",
                                                 !.results = finishCall(c.call, node)]]
       /\ UNCHANGED <<roots, last, gen, rw, model>>

\* both callers have their results
ConcReturn ==
    /\ \A p \in Callers : calls.of[p].pc = "done"
    /\ calls' = NoCalls
    /\ UNCHANGED <<roots, last, gen, rw, model>>

NextConc ==
    \/ \E p \in Callers, call \in ConcCalls : ConcCall(p, call)
    \/ \E p \in Callers : ConcLoaded(p)
    \/ \E p \in Callers : ConcWalk(p)
    \/ ConcReturn

SpecConc == Init /\ [][NextConc]_vars

(***************************************************************************)
(* The commonality statistic as a state machine: getWordStats is applied   *)
(* to the metadata of some corpus and a frequency, and then once more to   *)
(* the same metadata and a second frequency.                               *)
(***************************************************************************)
\* the metadata of the corpora whose total frequency is at most
\* MaxTotalFrequency: every word has a frequency >= 1, the rarest and the
\* most common word are two words unless all words are equally frequent
Metadatas ==
    { md \in [totalFrequency : 1..MaxTotalFrequency,
              minFrequency : 1..MaxTotalFrequency,
              maxFrequency : 1..MaxTotalFrequency] :
        /\ md.minFrequency <= md.maxFrequency
        /\ md.maxFrequency <= md.totalFrequency
        /\ md.minFrequency < md.maxFrequency =>
              md.minFrequency + md.maxFrequency <= md.totalFrequency
        /\ md.minFrequency = md.maxFrequency =>
              md.totalFrequency % md.minFrequency = 0 }

\* the frequencies passed: 0 (a fallback), the frequencies of words, and one
\* above the corpus total
Frequencies == 0..(MaxTotalFrequency + 1)

\* getWordStats(md, frequency), a whole call
GetWordStats(md, freq) ==
    /\ last.op = "none"
    /\ PhonIdle
    /\ last' = [op |-> "getWordStats", metadata |-> md,
                frequency |-> freq, results |-> getWordStats(md, freq)]
    /\ UNCHANGED <<roots, gen, rw, model, calls>>

\* a second call, with the metadata of the call before it
GetWordStatsAgain(freq) ==
    /\ last.op = "getWordStats"
    /\ last' = [op |-> "getWordStatsAgain", metadata |-> last.metadata,
                frequency |-> freq,
                results |-> getWordStats(last.metadata, freq),
                before |-> last]
    /\ UNCHANGED <<roots, gen, rw, model, calls>>

NextStats ==
    \/ \E md \in Metadatas, freq \in Frequencies : GetWordStats(md, freq)
    \/ \E freq \in Frequencies : GetWordStatsAgain(freq)
    \/ Return

SpecStats == Init /\ [][NextStats]_vars

(***************************************************************************)
(* Properties of the trie.                                                 *)
(***************************************************************************)
\* how often x occurs in the list seq
CountOf(seq, x) == Cardinality({i \in DOMAIN seq : seq[i] = x})

WordsOf(results) == [i \in DOMAIN results |-> results[i].word]

\* the arguments of the last solve call, normalized to lower case
SolveValid == {toLowerCase(c) : c \in Range(last.validLetters)}
SolveRequired == toLowerCase(last.requiredLetter)

\* the dictionary words that answer the puzzle of the last solve call
SolveAnswers ==
    {w \in Dict : /\ Len(w) >= last.minLength
                  /\ Range(w) \subseteq SolveValid
                  /\ SolveRequired \in Range(w)}

\* C1: solve is complete and duplicate-free: it returns, exactly once, every
\* dictionary word of length >= minLength that uses only valid letters and
\* contains the required letter.
C1_SolveComplete ==
    last.op = "solve" =>
        /\ ~last.threw
        /\ \A w \in SolveAnswers : CountOf(WordsOf(last.results), w) = 1

\* a solve call with several answers, one of them a proper extension of
\* another, while other dictionary words are not answers
C1_Witness ==
    /\ last.op = "solve"
    /\ last.minLength = 2
    /\ <<"a", "b">> \in SolveAnswers
    /\ <<"a", "b", "a">> \in SolveAnswers
    /\ SolveAnswers # Dict
    /\ Len(last.results) = Cardinality(SolveAnswers)

\* C2: every word solve returns has length >= minLength, uses only valid
\* letters (case-insensitively) and contains the required letter; nothing is
\* returned when the required letter is not a valid letter.
C2_SolveSound ==
    last.op = "solve" =>
        /\ \A i \in DOMAIN last.results :
              LET w == lowerStr(last.results[i].word)
              IN /\ Len(w) >= last.minLength
                 /\ Range(w) \subseteq SolveValid
                 /\ SolveRequired \in Range(w)
        /\ (SolveRequired \notin SolveValid => last.results = << >>)

\* a solve call given an upper-case letter that returns words, while the
\* dictionary holds words with a letter that is not valid
C2_Witness ==
    /\ last.op = "solve"
    /\ "A" \in Range(last.validLetters)
    /\ "c" \notin SolveValid
    /\ Len(last.results) >= 2

\* a solve call whose required letter is not among the valid letters
C2_WitnessNotValid ==
    /\ last.op = "solve"
    /\ SolveRequired \notin SolveValid
    /\ SolveValid # {}

InUnit(c) == ~c.nan /\ 0 <= c.milli /\ c.milli <= Milli

\* C3: find of a dictionary word returns found with the frequency stored on
\* the word's terminal node (> 0), probability = frequency / totalFrequency
\* strictly between 0 and 1, and commonality in [0, 1].
C3_FindPresent ==
    (last.op = "find" /\ last.word \in Dict) =>
        /\ ~last.threw
        /\ Len(last.results) = 1
        /\ LET r == last.results[1]
           IN /\ r.found
              /\ r.word = last.word
              /\ r.frequency = DictFreq[last.word]
              /\ r.frequency > 0
              /\ r.probability = [num |-> r.frequency,
                                  den |-> metadata.totalFrequency]
              /\ 0 < r.probability.num
              /\ r.probability.num < r.probability.den
              /\ InUnit(r.commonality)

\* find of a three-letter dictionary word, called with a fallback frequency
\* that differs from the word's own
C3_Witness ==
    /\ last.op = "find"
    /\ last.word = <<"c", "a", "b">>
    /\ last.fallbackFreq = 0
    /\ last.results[1].found

\* the word is absent in one of the three ways: it is empty, an edge of its
\* path is missing, or its path ends on a non-terminal node
AbsentWord(word) ==
    /\ lowerStr(word) \notin Dict
    /\ word # << >> => toLowerCase(word[1]) \in SegmentLetters

\* C4: find of an absent word returns found = false with frequency equal to
\* the fallback, probability 0 when the fallback is 0, and does not throw.
C4_FindAbsent ==
    (last.op = "find" /\ AbsentWord(last.word)) =>
        /\ ~last.threw
        /\ Len(last.results) = 1
        /\ LET r == last.results[1]
           IN /\ ~r.found
              /\ r.frequency = last.fallbackFreq
              /\ (last.fallbackFreq = 0 => r.probability.num = 0)

\* find, with a non-zero fallback, of a word whose path ends on a
\* non-terminal node
C4_Witness ==
    /\ last.op = "find"
    /\ last.word = <<"c", "a">>
    /\ last.fallbackFreq = 2
    /\ ~last.results[1].found

\* C5: find normalizes its input to lower case: for every letter-casing
\* variant of a dictionary word, find returns found with the frequency of
\* the dictionary word.
C5_FindAnyCase ==
    (last.op = "find" /\ lowerStr(last.word) \in Dict) =>
        /\ ~last.threw
        /\ last.results[1].found
        /\ last.results[1].frequency = DictFreq[lowerStr(last.word)]

\* C6: getWordsWithPrefix returns exactly the dictionary words that share
\* the prefix, each once and with its frequency, and nothing for the empty
\* prefix.  In whichever case sense "share the prefix" is read, this needs
\* every returned word to be a dictionary word that starts with the prefix
\* case-insensitively, and every dictionary word that starts with the prefix
\* as given to be returned exactly once.
C6_PrefixExact ==
    last.op = "getWordsWithPrefix" =>
        /\ \A i \in DOMAIN last.results :
              LET r == last.results[i]
              IN /\ r.word \in Dict
                 /\ IsPrefixOf(lowerStr(last.word), r.word)
                 /\ r.frequency = DictFreq[r.word]
        /\ \A w \in Dict :
              (last.word # << >> /\ IsPrefixOf(last.word, w)) =>
                  CountOf(last.results, [word |-> w, frequency |-> DictFreq[w]]) = 1
        /\ (last.word = << >> => last.results = << >>)

\* the segment of a lower-case letter is cached, under whichever key
SegmentLoaded(letter) ==
    \E c \in Chars : toLowerCase(c) = letter /\ ~Falsy(roots[c])

\* C14: over any series of find / getWordsWithPrefix / solve calls, once the
\* segment of a first letter is loaded it stays cached and no later call
\* invokes the loader for that letter, whatever the case of the letter in
\* the later query.
C14_LoadedOnce ==
    [][\A letter \in LowerLetters :
          SegmentLoaded(letter) =>
              /\ SegmentLoaded(letter)'
              /\ \A i \in DOMAIN last'.loads :
                    toLowerCase(last'.loads[i]) # letter]_vars

\* the loader is invoked for 'a' by a call made when the cache already held
\* the letter's segment, loaded by an earlier query that started with 'A'
C14_Reloaded ==
    /\ last.op = "find"
    /\ last.word = <<"a", "b">>
    /\ last.loads = <<"a">>
    /\ roots["A"] = "a"

\* the part of C14 that holds: a cached segment is never evicted, and a
\* letter cached under its lower-case key is never loaded again
C14_NoEviction ==
    [][\A c \in Chars :
          ~Falsy(roots[c]) =>
              /\ roots'[c] = roots[c]
              /\ (c \in LowerLetters =>
                    \A i \in DOMAIN last'.loads : toLowerCase(last'.loads[i]) # c)]_vars

\* the loader delivers a blob for the character, and the blob does not
\* decompress and decode into a trie subtree
BadBlob(char) ==
    /\ loader(char).ok
    /\ ~(decodes(loader(char).blob) /\ unpack(loader(char).blob) \in SegmentLetters)

\* C15: when the blob the loader returns for a letter cannot be decompressed
\* or decoded into a trie subtree, the call that triggered the load fails
\* with an error, the cache gains no entry for the letter, and the segments
\* cached before are unchanged.
C15_BadBlobFails ==
    [][\A i \in DOMAIN last'.loads :
          BadBlob(last'.loads[i]) =>
              /\ last'.threw
              /\ roots'[last'.loads[i]] = Undefined
              /\ \A c \in Chars : ~Falsy(roots[c]) => roots'[c] = roots[c]]_vars

\* a blob that decodes to null is taken for a subtree: find returns
\* found = false and the cache holds null for the character
C15_NullBlobAccepted ==
    /\ last.op = "find"
    /\ last.loads = <<"3">>
    /\ ~last.threw
    /\ ~last.results[1].found
    /\ roots["3"] = NullValue

\* the part of C15 that holds: a blob that fails to decompress or decode
\* makes the call fail and leaves the cache as it was
C15_DamagedBlobFails ==
    [][\A i \in DOMAIN last'.loads :
          (loader(last'.loads[i]).ok /\ ~decodes(loader(last'.loads[i]).blob)) =>
              (last'.threw /\ roots' = roots)]_vars

\* C16: find of a word whose first character has no segment (the loader has
\* none for it) returns found = false with frequency = fallbackFreq and does
\* not raise.
C16_FindMissingSegment ==
    (last.op = "find" /\ last.word # << >> /\ ~loader(last.word[1]).ok) =>
        /\ ~last.threw
        /\ Len(last.results) = 1
        /\ ~last.results[1].found
        /\ last.results[1].frequency = last.fallbackFreq

\* find of such a word: the loader's rejection reaches the caller
C16_FindRaises ==
    /\ last.op = "find"
    /\ last.word = <<"1", "a">>
    /\ last.loads = <<"1">>
    /\ last.threw

\* C21: every word getWordsWithPrefix returns is the path string from the
\* trie root to its terminal node, that is the dictionary word as stored,
\* and starts with the prefix compared case-insensitively, whatever the
\* letter-casing of the prefix.
C21_PrefixWordsStored ==
    (last.op = "getWordsWithPrefix" /\ ~last.threw) =>
        \A i \in DOMAIN last.results :
            /\ last.results[i].word \in Dict
            /\ IsPrefixOf(lowerStr(last.word), lowerStr(last.results[i].word))

\* a word is returned that is spelled with the upper-case letter of the
\* prefix, and is no path of the trie
C21_WordAsTyped ==
    /\ last.op = "getWordsWithPrefix"
    /\ last.word = <<"c", "A">>
    /\ Len(last.results) = 1
    /\ last.results[1].word = <<"c", "A", "b">>

\* the part of C21 that holds: every returned word starts with the prefix
\* compared case-insensitively and is a dictionary word once lower-cased
C21_PrefixWordsUpToCase ==
    (last.op = "getWordsWithPrefix" /\ ~last.threw) =>
        \A i \in DOMAIN last.results :
            /\ lowerStr(last.results[i].word) \in Dict
            /\ IsPrefixOf(lowerStr(last.word), lowerStr(last.results[i].word))

\* the results of the solve call with the smaller and with the larger
\* minimum length, of the two calls made one after the other
SolveShort == IF last.minLength < last.before.minLength THEN last ELSE last.before
SolveLong == IF last.minLength < last.before.minLength THEN last.before ELSE last

\* C23: solve is monotone in minLength: for the same letters and required
\* letter and L1 < L2, every word solve returns for L2 it returns for L1 as
\* well, so the count for L1 is at least the count for L2.
C23_SolveMonotone ==
    last.op = "solveAgain" =>
        /\ ~SolveShort.threw /\ ~SolveLong.threw
        /\ Range(SolveLong.results) \subseteq Range(SolveShort.results)
        /\ Len(SolveShort.results) >= Len(SolveLong.results)

\* two calls where the larger minimum length keeps some words and drops
\* others
C23_Witness ==
    /\ last.op = "solveAgain"
    /\ Len(SolveLong.results) >= 1
    /\ Len(SolveShort.results) > Len(SolveLong.results)

(***************************************************************************)
(* Properties of the word generators.  The paths of the syllable graph are *)
(* enumerated here from the trained tables alone, by length, without the   *)
(* generator's stack or its pruning.                                       *)
(***************************************************************************)
\* next is recorded as a successor of current
HasEdge(t, current, next) == next \in Range(nextKeys(t, current))

\* the syllables of the tables, the two markers left out
SyllablesOf(t) ==
    (Range(t.keys) \cup UNION {Range(t.next[i]) : i \in 1..Len(t.next)})
        \ {StartMarker, EndMarker}

\* the paths ^^ -> s1 -> ... -> sk of exactly k syllables
RECURSIVE GraphPaths(_, _)
GraphPaths(t, k) ==
    IF k = 0 THEN { << >> }
    ELSE { Append(x[1], x[2]) :
             x \in { y \in GraphPaths(t, k - 1) \X SyllablesOf(t) :
                        HasEdge(t, IF y[1] = << >> THEN StartMarker
                                   ELSE y[1][Len(y[1])], y[2]) } }

NoTriple(p) ==
    \A i \in 1..(Len(p) - 2) : ~(p[i] = p[i + 1] /\ p[i + 1] = p[i + 2])

UsesPool(word, options) ==
    \A i \in 1..Len(word) :
        word[i] \in Range(options.pool) \cup {options.center}

InLength(word, options) ==
    options.minLen <= Len(word) /\ Len(word) <= options.maxLen

\* the complete paths ^^ -> s1 -> ... -> sn -> $$ that options admit
ViablePaths(t, options) ==
    { p \in UNION { GraphPaths(t, k) : k \in 1..options.maxLen } :
        /\ HasEdge(t, p[Len(p)], EndMarker)
        /\ UsesPool(join(p), options)
        /\ InLength(join(p), options)
        /\ options.center \in Range(join(p))
        /\ NoTriple(p) }

\* how many of the yielded items were joined from the syllables p
YieldsOf(out, p) == Cardinality({i \in 1..Len(out) : out[i].syllables = p})

\* C7: every word generateViableWords has yielded so far contains the
\* center, is made of characters of the pool and the center only, and has a
\* length from minLen to maxLen.
C7_GeneratedWordsValid ==
    gen.pc \in {"running", "done"} =>
        \A i \in 1..Len(gen.out) :
            /\ gen.options.center \in Range(gen.out[i].word)
            /\ UsesPool(gen.out[i].word, gen.options)
            /\ InLength(gen.out[i].word, gen.options)

\* a completed generator that yielded a word of exactly maxLen characters
\* and one of exactly minLen, while the tables hold a syllable outside the
\* pool
C7_Witness ==
    /\ gen.pc = "done"
    /\ \E i, j \in 1..Len(gen.out) :
          /\ Len(gen.out[i].word) = gen.options.maxLen
          /\ Len(gen.out[j].word) = gen.options.minLen
    /\ \E syl \in SyllablesOf(model.syllableBigrams) :
          ~UsesPool(syl, gen.options)

\* C8: a generator that ran to its end has yielded exactly once for every
\* path ^^ -> s1 -> ... -> sn -> $$ within the pool and the length range that
\* contains the center and never repeats a syllable three times in a row,
\* and has yielded for no other path; each item is the join of its path, so
\* a string comes once per segmentation.
C8_GeneratorExhaustive ==
    gen.pc = "done" =>
        LET paths == ViablePaths(model.syllableBigrams, gen.options)
        IN /\ \A p \in paths : YieldsOf(gen.out, p) = 1
           /\ \A i \in 1..Len(gen.out) :
                 /\ gen.out[i].syllables \in paths
                 /\ gen.out[i].word = join(gen.out[i].syllables)

\* a completed generator that yielded one string for two segmentations and
\* a word with a syllable twice in a row, where the same syllable three
\* times in a row is a path of the tables that fits the length range
C8_Witness ==
    /\ gen.pc = "done"
    /\ \E i, j \in 1..Len(gen.out) :
          /\ gen.out[i].word = gen.out[j].word
          /\ gen.out[i].syllables # gen.out[j].syllables
    /\ \E i \in 1..Len(gen.out) :
          \E k \in 1..(Len(gen.out[i].syllables) - 1) :
              gen.out[i].syllables[k] = gen.out[i].syllables[k + 1]
    /\ \E p \in GraphPaths(model.syllableBigrams, 3) :
          /\ ~NoTriple(p)
          /\ HasEdge(model.syllableBigrams, p[3], EndMarker)
          /\ UsesPool(join(p), gen.options)
          /\ InLength(join(p), gen.options)
          /\ gen.options.center \in Range(join(p))

\* C9: the number countViableWords returns is the number of items of a
\* separate, materialized run of generateViableWords with the same options
\* on the same model.
C9_CountEqualsGenerated ==
    gen.pc = "counted" =>
        gen.count = Len(generateViableWords(model, gen.options))

\* a count of three or more
C9_Witness == gen.pc = "counted" /\ gen.count >= 3

\* C10: a word getRandomViableWord returns has a length from minLen to
\* maxLen, contains the center, is made of characters of the pool and the
\* center only, and its syllables never repeat three times in a row.
C10_RandomWordValid ==
    (rw.pc = "returned" /\ ~rw.result.isNull) =>
        /\ InLength(rw.result.word, rw.options)
        /\ rw.options.center \in Range(rw.result.word)
        /\ UsesPool(rw.result.word, rw.options)
        /\ NoTriple(rw.result.syllables)
        /\ rw.result.word = join(rw.result.syllables)

\* a word is returned that has a syllable twice in a row and is of exactly
\* maxLen characters
C10_Witness ==
    /\ rw.pc = "returned"
    /\ ~rw.result.isNull
    /\ Len(rw.result.word) = rw.options.maxLen
    /\ \E k \in 1..(Len(rw.result.syllables) - 1) :
          rw.result.syllables[k] = rw.result.syllables[k + 1]
C26_GeneratorFinishes ==
    /\ (gen.pc = "running") ~> (gen.pc = "done")
    /\ [](gen.pc \in {"running", "done"} /\ gen.run = 2 =>
            IsPrefixOf(gen.out, gen.first))

\* a run has completed after it went twice through a self-loop of the
\* syllable graph
C26_Witness ==
    /\ gen.pc = "done"
    /\ gen.run = 2
    /\ \E i \in DOMAIN gen.out :
          \E k \in 1..(Len(gen.out[i].syllables) - 1) :
             gen.out[i].syllables[k] = gen.out[i].syllables[k + 1]

(***************************************************************************)
(* Properties of the scores.                                               *)
(***************************************************************************)
\* C11: a word getRandomViableWord returned is viable on the same model:
\* isViable of it is true.  Stated for the case most favourable to it, in
\* which the syllabifier cuts the word into the very syllables it was joined
\* from.
C11_RandomWordViable ==
    (rw.pc = "checked" /\ rw.syllables = rw.result.syllables) => rw.viable

\* a returned word that no cut into syllables makes viable
C11_NeverViable ==
    /\ rw.pc = "returned"
    /\ ~rw.result.isNull
    /\ \A syllables \in Segmentations(rw.result.word) :
          ~isViable(model, syllables)

\* a returned word that is viable as it was joined
C11_SomeViable ==
    rw.pc = "checked" /\ rw.syllables = rw.result.syllables /\ rw.viable
\* score > limit, for a score kept as a fraction
Above(value, limit) == value.sum > limit * value.n

AllAbove(m, syllables) ==
    \A i \in 1..Len(syllables) :
        Above(scoreSyllable(m, syllables[i]), -4 * Milli)

EntriesOf(table) ==
    UNION { { <<table.keys[k], table.next[k][j]>> : j \in 1..Len(table.next[k]) } :
              k \in 1..Len(table.keys) }

\* the letters of a context or symbol, the marker characters left out
LettersOf(str) == Range(str) \ {"^", "$"}

\* C13: filterModel(pool) returns both tables reduced to exactly the entries
\* whose context and symbol are made of pool characters, the marker
\* characters always being retained: an entry is kept if and only if the
\* letters of its context and of its symbol are all in the pool.
C13_FilterExact ==
    (last.op = "filterModel" /\ ~last.threw) =>
        /\ EntriesOf(last.results.syllableBigrams)
             = { e \in EntriesOf(model.syllableBigrams) :
                   LettersOf(e[1]) \cup LettersOf(e[2]) \subseteq Range(last.pool) }
        /\ { <<e[1], <<e[2]>> >> : e \in EntriesOf(last.results.charTransitions) }
             = { e \in { <<x[1], <<x[2]>> >> : x \in EntriesOf(model.charTransitions) } :
                   LettersOf(e[1]) \cup LettersOf(e[2]) \subseteq Range(last.pool) }

\* what filterModel does keep of the character table: the entries whose
\* context is '^^' or pool letters only and whose symbol is a pool letter
C13_CharEntriesKept ==
    (last.op = "filterModel" /\ ~last.threw) =>
        EntriesOf(last.results.charTransitions)
          = { e \in EntriesOf(model.charTransitions) :
                /\ e[1] = StartMarker \/ Range(e[1]) \subseteq Range(last.pool)
                /\ e[2] \in Range(last.pool) }

\* C17: importModel of a document that lacks one of the two tables raises an
\* error.
C17_ImportRejectsIncomplete ==
    (last.op = "importModel" /\ DOMAIN last.data # TableNames) => last.threw

\* after such an import the scorer is left without the table
C17_TableMissing ==
    /\ last.op = "importModel"
    /\ ~last.threw
    /\ ~hasTable(model, "charTransitions")

(***************************************************************************)
(* Properties of the commonality statistic.                                *)
(***************************************************************************)
\* a <= b on numbers that may be NaN: false when either is NaN
Leq(a, b) == ~a.nan /\ ~b.nan /\ a.milli <= b.milli

StatsCall == last.op \in {"getWordStats", "getWordStatsAgain"}

\* C18: the commonality of any frequency >= 0 under any corpus metadata is a
\* number in [0, 1]; it is 0 for the rarest word and 1 for the most common
\* word; this also when minFrequency = maxFrequency.
C18_CommonalityInUnit ==
    StatsCall =>
        /\ InUnit(last.results.commonality)
        /\ (last.metadata.minFrequency < last.metadata.maxFrequency =>
              /\ last.frequency = last.metadata.minFrequency =>
                    last.results.commonality = Num(0)
              /\ last.frequency = last.metadata.maxFrequency =>
                    last.results.commonality = Num(Milli))

\* a corpus of two equally frequent words: the commonality of either is NaN
C18_NaN ==
    /\ last.op = "getWordStats"
    /\ last.metadata = [totalFrequency |-> 2, minFrequency |-> 1, maxFrequency |-> 1]
    /\ last.frequency = 1
    /\ last.results.commonality = NaN

\* the part of C18 that holds: with minFrequency < maxFrequency the
\* commonality is in [0, 1]
C18_InUnitWhenSpread ==
    (StatsCall /\ last.metadata.minFrequency < last.metadata.maxFrequency) =>
        InUnit(last.results.commonality)

\* C19: for fixed metadata and frequencies f1 <= f2, commonality(f1) <=
\* commonality(f2).
C19_Monotonic ==
    (last.op = "getWordStatsAgain" /\ last.before.frequency <= last.frequency) =>
        Leq(last.before.results.commonality, last.results.commonality)

\* two calls with frequencies in order, the first commonality being a number
\* and the second NaN
C19_NaNNotOrdered ==
    /\ last.op = "getWordStatsAgain"
    /\ last.before.frequency < last.frequency
    /\ ~last.before.results.commonality.nan
    /\ last.results.commonality.nan

\* the part of C19 that holds: with minFrequency < maxFrequency the
\* commonality does not decrease as the frequency grows
C19_MonotonicWhenSpread ==
    (/\ last.op = "getWordStatsAgain"
     /\ last.before.frequency <= last.frequency
     /\ last.metadata.minFrequency < last.metadata.maxFrequency) =>
        Leq(last.before.results.commonality, last.results.commonality)

(***************************************************************************)
(* Properties of the outcome of getRandomViableWord.                       *)
(***************************************************************************)
\* the syllables of the model that are made of pool letters (the center
\* letter counts as one) and contain the center letter
AnchorsOf(options) ==
    { s \in Range(model.syllableBigrams.keys) \ {StartMarker, EndMarker} :
        /\ Range(s) \subseteq Range(options.pool) \cup {options.center}
        /\ options.center \in Range(s) }

RwWalking == rw.pc \in {"attempt", "back", "fwd"}

\* C20: getRandomViableWord returns null without a walk when no pool-valid
\* syllable contains the center letter; otherwise a call ends only by
\* returning a candidate the moment it is accepted, or by returning null
\* when maxRetries attempts have been rejected; an attempt is counted as
\* rejected only on a dead end, the step ceiling or a refused candidate.
C20_NullOnlyWhenExhausted ==
    [][/\ (rw.pc = "idle" /\ rw'.pc # "idle") =>
             IF AnchorsOf(rw'.options) = {}
             THEN rw'.pc = "returned" /\ rw'.result.isNull
             ELSE rw'.pc = "attempt" /\ rw'.attempt = 0
       /\ (RwWalking /\ rw'.pc = "returned") =>
             IF rw'.result.isNull
             THEN rw.pc = "attempt" /\ rw.attempt = rw.maxRetries
             ELSE /\ rw.pc = "fwd"
                  /\ rw.attempt < rw.maxRetries
                  /\ InLength(rw'.result.word, rw.options)
                  /\ NoTriple(rw'.result.syllables)
       /\ (RwWalking /\ rw'.pc = "attempt" /\ rw.pc # "attempt") =>
             /\ rw'.attempt = rw.attempt + 1
             /\ rw'.attempt <= rw.maxRetries
       /\ (rw.pc = "attempt" /\ rw.attempt < rw.maxRetries) =>
             rw'.pc = "back" /\ rw'.attempt = rw.attempt]_vars

\* null is returned for options under which no syllable can be an anchor
C20_NoAnchorNull ==
    /\ rw.pc = "returned"
    /\ rw.result.isNull
    /\ AnchorsOf(rw.options) = {}

\* null is returned although there are anchors: every attempt was rejected
C20_Witness ==
    /\ rw.pc = "returned"
    /\ rw.result.isNull
    /\ AnchorsOf(rw.options) # {}

\* C27: getRandomViableWord returns after at most maxRetries attempts; a
\* walk goes on only while it has taken at most 10 steps, so it takes at
\* most 11, and it passes its marker only within 10 steps; the call
\* terminates, also on a syllable graph with cycles.
C27_RandomWalkTerminates ==
    /\ [](RwWalking => rw.attempt <= rw.maxRetries)
    /\ [](rw.pc \in {"back", "fwd"} => rw.attempt < rw.maxRetries)
    /\ [](rw.pc = "back" => rw.backSteps <= 10)
    /\ [](rw.pc = "fwd" => rw.fwdSteps <= 10)
    /\ [][/\ (rw.pc = "back" /\ rw'.pc = "back") =>
               rw'.backSteps = rw.backSteps + 1
          /\ (rw.pc = "fwd" /\ rw'.pc = "fwd") =>
               rw'.fwdSteps = rw.fwdSteps + 1
          /\ (rw.pc = "back" /\ rw'.pc = "fwd") => rw.backSteps + 1 <= 10
          /\ (rw.pc = "fwd" /\ rw'.pc = "returned") => rw.fwdSteps + 1 <= 10]_vars
    /\ RwWalking ~> (rw.pc = "returned")

\* the last attempt's forward walk has gone round a cycle for 10 steps: the
\* next step abandons it
C27_Witness ==
    /\ rw.pc = "fwd"
    /\ rw.fwdSteps = 10
    /\ rw.attempt = rw.maxRetries - 1

(***************************************************************************)
(* Properties of trie calls in flight at the same time.                    *)
(***************************************************************************)
\* what the caller sees of a call
Outcome(r) == [threw |-> r.threw, results |-> r.results]

ConcDone == \A p \in Callers : calls.of[p].pc = "done"

\* the two calls made one after the other on the cache as it was when the
\* first of them was made, first and then second
OneAfterTheOther(first, second) ==
    LET r1 == seqCall(calls.base, calls.of[first].call)
        r2 == seqCall(r1.roots, calls.of[second].call)
    IN /\ Outcome(calls.of[first]) = Outcome(r1)
       /\ Outcome(calls.of[second]) = Outcome(r2)

\* C24: two trie calls that run at the same time each invoke the loader for
\* a letter they find unloaded (there is no sharing of a load in flight);
\* in every interleaving both return what they return when made one after
\* the other, and the cache ends up holding the segment of every letter
\* that was loaded.
C24_ConcurrentAsSequential ==
    ConcDone =>
        /\ OneAfterTheOther(1, 2) \/ OneAfterTheOther(2, 1)
        /\ \A p \in Callers :
              \A i \in DOMAIN calls.of[p].loads :
                 LET char == calls.of[p].loads[i]
                 IN toLowerCase(char) \in SegmentLetters =>
                       roots[char] = toLowerCase(char)
        /\ \A p \in Callers :
              LET solo == seqCall(calls.base, calls.of[p].call)
                  chars == charsOf(calls.of[p].call)
              IN ~solo.threw =>
                   \A k \in DOMAIN chars :
                      toLowerCase(chars[k]) \in SegmentLetters =>
                         SegmentLoaded(toLowerCase(chars[k]))

\* both calls found the segment of 'a' unloaded, both invoked the loader for
\* it, and both found their word
C24_Witness ==
    /\ ConcDone
    /\ \A p \in Callers :
          /\ calls.of[p].loads = <<"a">>
          /\ calls.of[p].call.op = "find"
          /\ calls.of[p].results[1].found

(***************************************************************************)
(* Properties of score.                                                    *)
(***************************************************************************)
\* the windows of ^^syllable$$: each a context of two characters and the
\* character after it, with its learned value
WindowsOf(m, syllable) ==
    LET t == tokenize(lowerStr(syllable))
    IN [i \in 1..(Len(t) - 2) |->
           charProb(m.charTransitions, SubSeq(t, i, i + 1), t[i + 2])]

RECURSIVE SumValues(_, _)
SumValues(windows, i) ==
    IF i > Len(windows) THEN 0 ELSE windows[i].value + SumValues(windows, i + 1)

\* the score of a syllable as stated: -10.0 if a window is unseen or below
\* -6.0, else the mean over all windows
StatedSyllableScore(m, syllable) ==
    LET windows == WindowsOf(m, syllable)
    IN IF \E i \in DOMAIN windows :
             ~windows[i].defined \/ windows[i].value < -6 * Milli
       THEN [sum |-> -10 * Milli, n |-> 1]
       ELSE [sum |-> SumValues(windows, 1), n |-> Len(windows)]

\* the sum of the stated scores of the syllables from the i-th on
RECURSIVE StatedTotal(_, _, _)
StatedTotal(m, syllables, i) ==
    IF i > Len(syllables) THEN [sum |-> 0, n |-> 1]
    ELSE LET a == StatedSyllableScore(m, syllables[i])
             b == StatedTotal(m, syllables, i + 1)
         IN [sum |-> a.sum * b.n + b.sum * a.n, n |-> a.n * b.n]

\* C25: score(word) is the mean of the scores of the word's syllables, a
\* syllable's score being the mean of the learned values over all windows
\* of ^^syllable$$, or -10.0 as soon as a window is unseen or below -6.0; a
\* word without syllables scores -100.  Every score is -100 or lies in
\* [-10, 0].
C25_ScoreIsMean ==
    (last.op = "score" /\ ~last.threw) =>
        /\ last.score.n > 0
        /\ IF Len(last.syllables) = 0
           THEN last.score.sum = -100 * Milli * last.score.n
           ELSE LET total == StatedTotal(model, last.syllables, 1)
                IN /\ last.score.sum * total.n * Len(last.syllables)
                        = total.sum * last.score.n
                   /\ -10 * Milli * last.score.n <= last.score.sum
                   /\ last.score.sum <= 0

\* a word of two syllables, one penalized and one averaged, scores between
\* the two
C25_Witness ==
    /\ last.op = "score"
    /\ ~last.threw
    /\ Len(last.syllables) = 2
    /\ \E i, j \in 1..2 :
          /\ StatedSyllableScore(model, last.syllables[i]).sum = -10 * Milli
          /\ StatedSyllableScore(model, last.syllables[j]).n > 1
    /\ -10 * Milli * last.score.n < last.score.sum
    /\ last.score.sum < 0

YieldedWords(m, options) ==
    LET yielded == generateViableWords(m, options)
    IN { yielded[i].word : i \in 1..Len(yielded) }

\* C29: on the trained model, a word getRandomViableWord returns is one of
\* the words generateViableWords yields for the same pool, center, minLen
\* and maxLen.
C29_RandomRefinesExhaustive ==
    rw.pc = "returned" /\ ~rw.result.isNull =>
        rw.result.word \in YieldedWords(model, rw.options)

\* the walk returned a word of more than one syllable that the generator
\* yields, while the generator yields other words as well
C29_Witness ==
    /\ rw.pc = "returned"
    /\ ~rw.result.isNull
    /\ Len(rw.result.syllables) > 1
    /\ rw.result.word \in YieldedWords(model, rw.options)
    /\ Cardinality(YieldedWords(model, rw.options)) > 1

(***************************************************************************)
(* Generation on the filtered model against generation on the full model.  *)
(***************************************************************************)
\* the prefixes with which the backward walk can arrive at '^^' from
\* currentBack; a prefix longer than maxLen is left out, the candidate
\* would be rejected in step 6
RECURSIVE BackPaths(_, _, _, _, _)
BackPaths(maps, currentBack, prefixParts, backSteps, maxLen) ==
    IF currentBack = StartMarker THEN {prefixParts}
    ELSE LET prevCandidates == nextKeys(maps.validReverseTransitions, currentBack)
         IN UNION { LET prev == prevCandidates[p]
                        parts == IF prev # StartMarker
                                 THEN <<prev>> \o prefixParts
                                 ELSE prefixParts
                    IN IF backSteps + 1 > StepCeiling \/ Len(join(parts)) > maxLen
                       THEN {}
                       ELSE BackPaths(maps, prev, parts, backSteps + 1, maxLen) :
                    p \in 1..Len(prevCandidates) }

\* the suffixes with which the forward walk can arrive at '$$' from
\* currentFwd
RECURSIVE FwdPaths(_, _, _, _, _)
FwdPaths(maps, currentFwd, suffixParts, fwdSteps, maxLen) ==
    IF currentFwd = EndMarker THEN {suffixParts}
    ELSE LET nextCandidates == nextKeys(maps.validTransitions, currentFwd)
         IN UNION { LET next == nextCandidates[n]
                        parts == IF next # EndMarker
                                 THEN Append(suffixParts, next)
                                 ELSE suffixParts
                    IN IF fwdSteps + 1 > StepCeiling \/ Len(join(parts)) > maxLen
                       THEN {}
                       ELSE FwdPaths(maps, next, parts, fwdSteps + 1, maxLen) :
                    n \in 1..Len(nextCandidates) }

\* the words getRandomViableWord can return on model m: those of the
\* accepted candidates over every seed and every pair of walks
Returnable(m, options) ==
    LET maps == rwMaps(m.syllableBigrams, options)
        candidates ==
            UNION { { prefixParts \o <<maps.anchorSyllables[s]>> \o suffixParts :
                        prefixParts \in BackPaths(maps, maps.anchorSyllables[s],
                                                  << >>, 0, options.maxLen),
                        suffixParts \in FwdPaths(maps, maps.anchorSyllables[s],
                                                 << >>, 0, options.maxLen) } :
                    s \in 1..Len(maps.anchorSyllables) }
    IN { join(c) : c \in {x \in candidates : rwAccepts(x, options)} }

\* every word the walk returns is one of Returnable
ReturnableCoversWalk ==
    rw.pc = "returned" /\ ~rw.result.isNull =>
        rw.result.word \in Returnable(model, rw.options)

\* the options of generation for the pool a model was filtered for: the
\* center is a letter of the pool
FilteredOptions(pool) ==
    [pool : {pool}, center : Range(pool), minLen : {1, 3},
     maxLen : {MaxLen - 1, MaxLen}]

\* C30: for the pool P a model was filtered for and a center in P, a scorer
\* that imported filterModel(P) yields the same sequence from
\* generateViableWords as the full model, and getRandomViableWord can
\* return the same set of words on both.
C30_FilteringPreservesGeneration ==
    last.op = "filterModel" /\ ~last.threw =>
        \A options \in FilteredOptions(last.pool) :
            LET filtered == importModel(last.results)
            IN /\ generateViableWords(filtered, options)
                    = generateViableWords(model, options)
               /\ Returnable(filtered, options) = Returnable(model, options)

\* the trained model was filtered for 'ab': syllables were dropped, the
\* generator yields words on the filtered tables and the walk can return
\* some
C30_Witness ==
    /\ last.op = "filterModel"
    /\ ~last.threw
    /\ last.pool = <<"a", "b">>
    /\ model = train(TrainingWords)
    /\ last.results.syllableBigrams # model.syllableBigrams
    /\ \E options \in FilteredOptions(last.pool) :
          /\ Len(generateViableWords(importModel(last.results), options)) > 1
          /\ Returnable(importModel(last.results), options) # {}

\* a model was filtered in which a syllable with the center keeps no
\* successor: it is an anchor of the full model only, and no word can be
\* returned from it
C30_DeadAnchor ==
    /\ last.op = "filterModel"
    /\ ~last.threw
    /\ \E options \in FilteredOptions(last.pool) :
          /\ rwMaps(last.results.syllableBigrams, options).anchorSyllables
                # rwMaps(model.syllableBigrams, options).anchorSyllables
          /\ Returnable(model, options) # {}

====
